---------------------------- MODULE Spec2Model ----------------------------
(***************************************************************************)
(* Model of the text-adaptation backend (Firebase functions):              *)
(*   functions/api/simplification.js  - simplifyText and its background    *)
(*                                      finisher generateAndSaveReport,    *)
(*                                      getSimplificationReport            *)
(*   functions/utils/analysis.js      - analyzeText                        *)
(*   functions/utils/auth.js          - getAuthenticatedUser               *)
(*   functions/api/profile.js         - createUserProfile,                 *)
(*                                      updateRecommendationSettings       *)
(*   functions/api/dictionary.js      - dictionaryApi and its background   *)
(*                                      worker processDictionaryJob        *)
(*                                                                         *)
(* Texts are sequences of UTF-16 code units (what charCodeAt returns).     *)
(* JavaScript numbers that are quotients are kept as exact fractions       *)
(* <<numerator, denominator>> in lowest terms with a positive denominator. *)
(***************************************************************************)
EXTENDS Integers, Sequences, FiniteSets, TLC

(***************************************************************************)
(* Bounds of the model                                                     *)
(***************************************************************************)
\* number of simplifyText requests received in one behaviour
MaxRequests == 1
\* the number of submissions that are in flight together
MaxConcurrent == 2
\* the length of the texts that are submitted for analysis
MaxTextLen == 3
\* number of createUserProfile and updateRecommendationSettings requests
\* received in one behaviour
MaxProfileRequests == 2
\* number of dictionaryApi requests received in one behaviour
MaxDictionaryRequests == 2

(***************************************************************************)
(* Characters                                                              *)
(***************************************************************************)
\* analysis.js: if (charCode >= 0xAC00 && charCode <= 0xD7A3)
HangulFirst == 44032
HangulLast == 55203

LF == 10
DOT == 46
COMMA == 44
QMARK == 63
BANG == 33
SQUOTE == 39
DQUOTE == 34

\* the characters matched by \s and removed by String.prototype.trim
Whitespace ==
    {9, 10, 11, 12, 13, 32, 160, 5760, 8232, 8233, 8239, 8287, 12288, 65279}
    \cup 8192..8202
IsWhitespace(c) == c \in Whitespace

\* the character class [.?!] of getSentences
SentenceEnds == {DOT, QMARK, BANG}

\* the character class [.,?!'"] of getWords
StrippedPunctuation == {DOT, COMMA, QMARK, BANG, SQUOTE, DQUOTE}

(***************************************************************************)
(* Exact fractions                                                         *)
(***************************************************************************)
Abs(n) == IF n < 0 THEN -n ELSE n

RECURSIVE GCD(_, _)
GCD(a, b) == IF b = 0 THEN a ELSE GCD(b, a % b)

\* n / d for d # 0, in lowest terms
Frac(n, d) ==
    LET g == GCD(Abs(n), Abs(d))
        s == IF d < 0 THEN -1 ELSE 1
    IN  <<(s * n) \div g, (s * d) \div g>>

Zero == <<0, 1>>
\* FracSub with the wrong sign: the sum
FracSub_Sum(a, b) == Frac(a[1] * b[2] + b[1] * a[2], a[2] * b[2])

FracSub(a, b) == Frac(a[1] * b[2] - b[1] * a[2], a[2] * b[2])
FracDiv(a, b) == Frac(a[1] * b[2], a[2] * b[1])
FracPositive(a) == a[1] > 0

\* Math.round(x * 100): the nearest integer, a tie going up
MathRoundPercent(x) == (200 * x[1] + x[2]) \div (2 * x[2])

\* (x * 100).toFixed(1), as a number of tenths: nearest, a tie going away
\* from zero
ToFixed1Percent(x) ==
    LET t == (2000 * Abs(x[1]) + x[2]) \div (2 * x[2])
    IN  IF x[1] < 0 THEN -t ELSE t

(***************************************************************************)
(* functions/utils/analysis.js                                             *)
(***************************************************************************)
KOREAN_STOPWORDS == {
    <<51060>>, <<44032>>, <<51008>>, <<45716>>, <<51012>>, <<47484>>,
    <<51032>>, <<50640>>, <<50640, 49436>>, <<50640, 44172>>, <<44760>>,
    <<54620, 53580>>, <<47196>>, <<51004, 47196>>, <<44284>>, <<50752>>,
    <<44536, 47532, 44256>>, <<44536, 47000, 49436>>,
    <<44536, 47084, 45208>>, <<54616, 51648, 47564>>,
    <<44536, 47088, 45936>>, <<46608, 45716>>, <<48143>>, <<44163>>,
    <<49688>>, <<46412>>, <<46321>>, <<51200>>, <<51200, 55148>>, <<44536>>,
    <<44536, 45376>>, <<50864, 47532>>, <<51080, 45796>>, <<50630, 45796>>,
    <<51060, 45796>>, <<50500, 45768, 45796>>, <<46104, 45796>>,
    <<54616, 45796>> }

\* text.split(re) for a regular expression re = [class]+ : the pieces
\* between the maximal runs of separator characters, empty pieces included
SplitOnRuns(text, separators) ==
    LET RECURSIVE go(_, _, _)
        go(i, cur, acc) ==
            IF i > Len(text) THEN Append(acc, cur)
            ELSE IF text[i] \in separators
                 THEN IF i > 1 /\ text[i - 1] \in separators
                      THEN go(i + 1, cur, acc)
                      ELSE go(i + 1, <<>>, Append(acc, cur))
                 ELSE go(i + 1, Append(cur, text[i]), acc)
    IN  go(1, <<>>, <<>>)

\* String.prototype.trim
RECURSIVE TrimStart(_)
TrimStart(s) ==
    IF s # <<>> /\ IsWhitespace(Head(s)) THEN TrimStart(Tail(s)) ELSE s

RECURSIVE TrimEnd(_)
TrimEnd(s) ==
    IF s # <<>> /\ IsWhitespace(s[Len(s)])
    THEN TrimEnd(SubSeq(s, 1, Len(s) - 1))
    ELSE s

Trim(s) == TrimEnd(TrimStart(s))

\* text.replace(/[.,?!'"]/g, '')
StripPunctuation(s) ==
    LET NotPunct(c) == c \notin StrippedPunctuation IN SelectSeq(s, NotPunct)

\* getSentences with neither the guard for the empty text nor the filter:
\* the pieces of split as they are
getSentences_SplitOnly(text) == SplitOnRuns(text, SentenceEnds)

\* getSentences when the filter keeps every piece that is not empty,
\* pieces of whitespace included
getSentences_NoTrim(text) ==
    IF text = <<>> THEN <<>>
    ELSE LET NonEmpty(s) == Len(s) > 0
         IN  SelectSeq(SplitOnRuns(text, SentenceEnds), NonEmpty)

getSentences(text) ==
    IF text = <<>> THEN <<>>
    ELSE LET NonBlank(s) == Len(Trim(s)) > 0
         IN  SelectSeq(SplitOnRuns(text, SentenceEnds), NonBlank)

\* getWords when the punctuation is left in the text
getWords_NoStrip(text) ==
    IF text = <<>> THEN <<>>
    ELSE LET NonEmpty(w) == Len(w) > 0
         IN  SelectSeq(SplitOnRuns(Trim(text), Whitespace), NonEmpty)

getWords(text) ==
    IF text = <<>> THEN <<>>
    ELSE LET NonEmpty(w) == Len(w) > 0
         IN  SelectSeq(SplitOnRuns(StripPunctuation(Trim(text)), Whitespace),
                       NonEmpty)

\* getHangulSyllableCount when the two comparisons are strict
getHangulSyllableCount_StrictBounds(text) ==
    LET IsHangul(c) == c > HangulFirst /\ c < HangulLast
    IN  Len(SelectSeq(text, IsHangul))

getHangulSyllableCount(text) ==
    LET IsHangul(c) == c >= HangulFirst /\ c <= HangulLast
    IN  Len(SelectSeq(text, IsHangul))

\* analyzeText with the two weights of the score exchanged
analyzeText_SwappedWeights(text) ==
    LET sentences == getSentences(text)
        words == getWords(text)
        IsStopword(w) == w \in KOREAN_STOPWORDS
        stopwordCount == Len(SelectSeq(words, IsStopword))
        charCount == Len(text)
        wordCount == Len(words)
        sentenceCount == Len(sentences)
        syllableCount == getHangulSyllableCount(text)
        avgSentenceLength ==
            IF sentenceCount > 0 THEN Frac(wordCount, sentenceCount) ELSE Zero
        avgWordSyllableLength ==
            IF wordCount > 0 THEN Frac(syllableCount, wordCount) ELSE Zero
        readabilityScore ==
            Frac(4 * avgSentenceLength[1] * avgWordSyllableLength[2]
                   + 6 * avgWordSyllableLength[1] * avgSentenceLength[2],
                 10 * avgSentenceLength[2] * avgWordSyllableLength[2])
    IN  [charCount |-> charCount,
         wordCount |-> wordCount,
         sentenceCount |-> sentenceCount,
         syllableCount |-> syllableCount,
         stopwordCount |-> stopwordCount,
         avgSentenceLength |-> avgSentenceLength,
         avgWordSyllableLength |-> avgWordSyllableLength,
         readabilityScore |-> readabilityScore]

\* analyzeText when a word counts as a stopword as soon as it contains one
analyzeText_StopwordSubstring(text) ==
    LET sentences == getSentences(text)
        words == getWords(text)
        IsStopword(w) ==
            \E s \in KOREAN_STOPWORDS :
                \E k \in 0..(Len(w) - Len(s)) : SubSeq(w, k + 1, k + Len(s)) = s
        stopwordCount == Len(SelectSeq(words, IsStopword))
        charCount == Len(text)
        wordCount == Len(words)
        sentenceCount == Len(sentences)
        syllableCount == getHangulSyllableCount(text)
        avgSentenceLength ==
            IF sentenceCount > 0 THEN Frac(wordCount, sentenceCount) ELSE Zero
        avgWordSyllableLength ==
            IF wordCount > 0 THEN Frac(syllableCount, wordCount) ELSE Zero
        readabilityScore ==
            Frac(6 * avgSentenceLength[1] * avgWordSyllableLength[2]
                   + 4 * avgWordSyllableLength[1] * avgSentenceLength[2],
                 10 * avgSentenceLength[2] * avgWordSyllableLength[2])
    IN  [charCount |-> charCount,
         wordCount |-> wordCount,
         sentenceCount |-> sentenceCount,
         syllableCount |-> syllableCount,
         stopwordCount |-> stopwordCount,
         avgSentenceLength |-> avgSentenceLength,
         avgWordSyllableLength |-> avgWordSyllableLength,
         readabilityScore |-> readabilityScore]

analyzeText(text) ==
    LET sentences == getSentences(text)
        words == getWords(text)
        IsStopword(w) == w \in KOREAN_STOPWORDS
        stopwordCount == Len(SelectSeq(words, IsStopword))
        charCount == Len(text)
        wordCount == Len(words)
        sentenceCount == Len(sentences)
        syllableCount == getHangulSyllableCount(text)
        avgSentenceLength ==
            IF sentenceCount > 0 THEN Frac(wordCount, sentenceCount) ELSE Zero
        avgWordSyllableLength ==
            IF wordCount > 0 THEN Frac(syllableCount, wordCount) ELSE Zero
        readabilityScore ==
            Frac(6 * avgSentenceLength[1] * avgWordSyllableLength[2]
                   + 4 * avgWordSyllableLength[1] * avgSentenceLength[2],
                 10 * avgSentenceLength[2] * avgWordSyllableLength[2])
    IN  [charCount |-> charCount,
         wordCount |-> wordCount,
         sentenceCount |-> sentenceCount,
         syllableCount |-> syllableCount,
         stopwordCount |-> stopwordCount,
         avgSentenceLength |-> avgSentenceLength,
         avgWordSyllableLength |-> avgWordSyllableLength,
         readabilityScore |-> readabilityScore]

(***************************************************************************)
(* Values                                                                  *)
(***************************************************************************)
\* a field, variable or document that is not there (undefined, no snapshot)
Missing == "missing"
\* an input the handler has not read on the path it took
Unread == "unread"
\* an optional array-valued field: absent, present but not an array, or an
\* array
MissingValue == [present |-> FALSE, isArray |-> FALSE, items |-> <<>>]
NotArray == [present |-> TRUE, isArray |-> FALSE, items |-> <<>>]
Array(items) == [present |-> TRUE, isArray |-> TRUE, items |-> items]

\* a document snapshot: snapshot.exists and snapshot.data()
NoDoc == [exists |-> FALSE]
Doc(data) == [exists |-> TRUE, data |-> data]

Uids == {"u1", "u2", "u3"}

\* the Authorization header: absent, a bearer token that verifyIdToken
\* rejects, or a valid token of a user (written as the uid it decodes to)
NoToken == "no-token"
BadToken == "bad-token"
Tokens == {NoToken, BadToken} \cup Uids

\* error.message of the errors the handlers can catch
NoTokenMessage == "No token"
InvalidTokenMessage == "Invalid token"
ProfileStoreMessage == "users.get failed"
OracleMessage == "openai request failed"
ParseMessage == "Unexpected token in JSON"
NotIterableMessage == "simplified_paragraphs.map is not a function"
JobStoreMessage == "firestore write failed"
JobReadMessage == "firestore read failed"

\* error.message.includes('토큰'): the two messages of getAuthenticatedUser
\* are the only ones written in Korean with that word
\* includesTokenWord when no message is recognised as a credential error
includesTokenWord_Never(message) == FALSE

includesTokenWord(message) ==
    message \in {NoTokenMessage, InvalidTokenMessage}

(***************************************************************************)
(* functions/utils/auth.js                                                 *)
(***************************************************************************)
getAuthenticatedUser(token) ==
    IF token = NoToken
    THEN [ok |-> FALSE, message |-> NoTokenMessage]
    ELSE IF token \notin Uids
         THEN [ok |-> FALSE, message |-> InvalidTokenMessage]
         ELSE [ok |-> TRUE, uid |-> token]

(***************************************************************************)
(* Inputs                                                                  *)
(***************************************************************************)
\* the users collection: u1 has set an active reading profile, u2 has
\* stored a profile with both levels 0, u3 has no profile document
StoredUsers ==
    [u \in Uids |->
        IF u = "u1"
        THEN Doc([readingProfile |-> [sentence |-> 2, vocabulary |-> 1]])
        ELSE IF u = "u2"
             THEN Doc([readingProfile |-> [sentence |-> 0, vocabulary |-> 0]])
             ELSE NoDoc]

\* the levels a readingProfile is documented to take (profile.js), and the
\* profiles that createUserProfile can have stored for a user
SentenceLevels == {0, 1, 2}
VocabularyLevels == {0, 1, 2, 3}
ReadingProfiles == [sentence : SentenceLevels, vocabulary : VocabularyLevels]

\* "가 나. 다." and "이 a?": submitted paragraph texts
TextOne == <<44032, 32, 45208, 46, 32, 45796, 46>>
TextTwo == <<51060, 32, 97, 63>>
\* "가.": a text the oracle writes
TextEasy == <<44032, 46>>

\* "이것은 긴 문장입니다. 짧다."
TextExample ==
    <<51060, 44163, 51008, 32, 44596, 32, 47928, 51109, 51077, 45768, 45796,
      46, 32, 51687, 45796, 46>>
\* "이 이것 에서 a이": two stopwords and two words that contain one
TextStopwords == <<51060, 32, 51060, 44163, 32, 50640, 49436, 32, 97, 51060>>
\* the first and the last Hangul syllable between their neighbours
TextBoundaries == <<44031, 44032, 55203, 55204>>
\* "a1 ;\t\n?!": Latin, digit, punctuation and whitespace only
TextNoHangul == <<97, 49, 32, 59, 9, 10, 63, 33>>
\* " '가,' \"a\" ! ": quotes and punctuation around words
TextQuoted == <<32, 39, 44032, 44, 39, 32, 34, 97, 34, 32, 33, 32>>

\* the characters of the short texts: the first and the last Hangul
\* syllable (the first one, "가", is a stopword), a Latin letter, a space,
\* a full stop and a comma
Alphabet == {HangulFirst, HangulLast, 97, 32, DOT, COMMA}

\* text values of a paragraph: every string over Alphabet up to MaxTextLen
\* and the texts above
Texts ==
    UNION {[1..n -> Alphabet] : n \in 0..MaxTextLen}
    \cup {TextOne, TextTwo, TextExample, TextStopwords, TextBoundaries,
          TextNoHangul, TextQuoted}

\* the texts the chat completion writes for a paragraph with text t: the
\* same text, a shorter one, a longer one
Rewrites(t) == {t, TextEasy, TextOne}

Paragraph(id, text) == [id |-> id, text |-> text]

ParagraphLists == {
    <<>>,
    <<Paragraph(1, TextOne), Paragraph(2, TextTwo)>> }

Bodies ==
    {[title |-> Missing, paragraphs |-> Array(<<>>)],
     [title |-> "title", paragraphs |-> MissingValue],
     [title |-> "title", paragraphs |-> NotArray]}
    \cup {[title |-> "title", paragraphs |-> Array(ps)] : ps \in ParagraphLists}

\* no job id (a request that has not generated one, a query without jobId)
NoJob == 0
\* request.query.jobId values a caller can send
JobIds == 1..(MaxRequests + 1)

\* the arrays the chat completion can return for the paragraphs ps: the
\* same paragraphs, every text rewritten, the last paragraph dropped, the
\* paragraphs in reverse order, other ids
RewrittenLists(ps) ==
    LET easy == [i \in DOMAIN ps |-> Paragraph(ps[i].id, TextEasy)]
    IN  {ps, easy}
        \cup {SubSeq(easy, 1, Len(easy) - 1) : x \in {1} \cap DOMAIN ps}
        \cup {[i \in DOMAIN ps |-> easy[Len(ps) + 1 - i]] :
                 x \in {2} \cap DOMAIN ps}
        \cup {[i \in DOMAIN ps |-> Paragraph(ps[i].id + 100, TextEasy)] :
                 x \in {1} \cap DOMAIN ps}

\* what openai.chat.completions.create can come back with: a rejection, a
\* message without tool call or arguments, arguments that are not JSON, or
\* parsed arguments
NoReply == [kind |-> Unread, simplified_paragraphs |-> MissingValue]
OracleReplies(ps) ==
    {[kind |-> k, simplified_paragraphs |-> MissingValue] :
         k \in {"throws", "noToolCall", "malformedJson"}}
    \cup {[kind |-> "arguments", simplified_paragraphs |-> v] :
             v \in {MissingValue, NotArray}}
    \cup {[kind |-> "arguments", simplified_paragraphs |-> Array(l)] :
             l \in RewrittenLists(ps)}

(***************************************************************************)
(* Helpers of simplifyText                                                 *)
(***************************************************************************)
\* JoinTexts when the texts are put together last paragraph first
RECURSIVE JoinTexts_Reversed(_)
JoinTexts_Reversed(ps) ==
    IF ps = <<>> THEN <<>>
    ELSE IF Len(ps) = 1 THEN ps[1].text
         ELSE JoinTexts_Reversed(Tail(ps)) \o <<LF, LF>> \o ps[1].text

\* seq.map(p => p.text).join('\n\n')
RECURSIVE JoinTexts(_)
JoinTexts(ps) ==
    IF ps = <<>> THEN <<>>
    ELSE IF Len(ps) = 1 THEN ps[1].text
         ELSE ps[1].text \o <<LF, LF>> \o JoinTexts(Tail(ps))

\* lines 40-73: the instructions pushed for a stored readingProfile
guidelineSentences(readingProfile) ==
    (IF readingProfile.sentence = 1 THEN <<"sentence-1">>
     ELSE IF readingProfile.sentence = 2 THEN <<"sentence-2">>
     ELSE <<>>)
    \o
    (IF readingProfile.vocabulary = 1 THEN <<"vocabulary-1">>
     ELSE IF readingProfile.vocabulary = 2 THEN <<"vocabulary-2">>
     ELSE <<>>)

\* lines 171-200 of generateAndSaveReport
\* analysisReport when a negative ratio is reported as 0
analysisReport_Clamped(originalFullText, simplifiedFullText) ==
    LET originalAnalysis == analyzeText(originalFullText)
        simplifiedAnalysis == analyzeText(simplifiedFullText)
        Clamp(x) == IF x[1] < 0 THEN Zero ELSE x
        charCountReduction ==
            IF originalAnalysis.charCount > 0
            THEN Clamp(Frac(originalAnalysis.charCount
                              - simplifiedAnalysis.charCount,
                            originalAnalysis.charCount))
            ELSE Zero
        readabilityImprovement ==
            IF FracPositive(originalAnalysis.readabilityScore)
            THEN Clamp(FracDiv(FracSub(originalAnalysis.readabilityScore,
                                       simplifiedAnalysis.readabilityScore),
                               originalAnalysis.readabilityScore))
            ELSE Zero
    IN  [summary |->
            [readability_improvement_percent |->
                 ToFixed1Percent(readabilityImprovement),
             char_count_reduction_percent |->
                 ToFixed1Percent(charCountReduction),
             key_message |->
                 <<MathRoundPercent(charCountReduction),
                   MathRoundPercent(readabilityImprovement)>>],
         quantitative_analysis |->
            [original |-> originalAnalysis,
             simplified |-> simplifiedAnalysis,
             improvements |->
                [char_count_reduction |-> charCountReduction,
                 word_count_reduction |->
                     IF originalAnalysis.wordCount > 0
                     THEN Clamp(Frac(originalAnalysis.wordCount
                                       - simplifiedAnalysis.wordCount,
                                     originalAnalysis.wordCount))
                     ELSE Zero,
                 stopword_reduction_count |->
                     originalAnalysis.stopwordCount
                       - simplifiedAnalysis.stopwordCount,
                 readability_improvement |-> readabilityImprovement]]]

analysisReport(originalFullText, simplifiedFullText) ==
    LET originalAnalysis == analyzeText(originalFullText)
        simplifiedAnalysis == analyzeText(simplifiedFullText)
        charCountReduction ==
            IF originalAnalysis.charCount > 0
            THEN Frac(originalAnalysis.charCount - simplifiedAnalysis.charCount,
                      originalAnalysis.charCount)
            ELSE Zero
        readabilityImprovement ==
            IF FracPositive(originalAnalysis.readabilityScore)
            THEN FracDiv(FracSub(originalAnalysis.readabilityScore,
                                 simplifiedAnalysis.readabilityScore),
                         originalAnalysis.readabilityScore)
            ELSE Zero
    IN  [summary |->
            [readability_improvement_percent |->
                 ToFixed1Percent(readabilityImprovement),
             char_count_reduction_percent |->
                 ToFixed1Percent(charCountReduction),
             key_message |->
                 <<MathRoundPercent(charCountReduction),
                   MathRoundPercent(readabilityImprovement)>>],
         quantitative_analysis |->
            [original |-> originalAnalysis,
             simplified |-> simplifiedAnalysis,
             improvements |->
                [char_count_reduction |-> charCountReduction,
                 word_count_reduction |->
                     IF originalAnalysis.wordCount > 0
                     THEN Frac(originalAnalysis.wordCount
                                 - simplifiedAnalysis.wordCount,
                               originalAnalysis.wordCount)
                     ELSE Zero,
                 stopword_reduction_count |->
                     originalAnalysis.stopwordCount
                       - simplifiedAnalysis.stopwordCount,
                 readability_improvement |-> readabilityImprovement]]]

(***************************************************************************)
(* State                                                                   *)
(***************************************************************************)
VARIABLES
    users,               \* collection 'users': uid -> document snapshot
    simplificationJobs,  \* collection 'simplificationJobs': jobId -> data
    requests,            \* the simplifyText invocations, in order of arrival
    report,              \* the getSimplificationReport invocation that has
                         \* read the store and not yet sent its answer
    profileRequests,     \* the invocations of createUserProfile and
                         \* updateRecommendationSettings, in order of arrival
    dictionaryJobs,      \* collection 'dictionaryJobs': jobId -> data
    dictionaryRequests   \* the dictionaryApi invocations, in order of arrival

vars ==
    <<users, simplificationJobs, requests, report, profileRequests,
      dictionaryJobs, dictionaryRequests>>

\* an HTTP response of simplifyText
NoResponse ==
    [code |-> 0, status |-> "", jobId |-> NoJob,
     simplified_paragraphs |-> <<>>, details |-> ""]
Response(code, status, details) ==
    [code |-> code, status |-> status, jobId |-> NoJob,
     simplified_paragraphs |-> <<>>, details |-> details]

\* the catch block of both handlers (simplifyText lines 215-222,
\* getSimplificationReport lines 259-266)
ErrorResponse(message) ==
    IF includesTokenWord(message)
    THEN Response(401, "error", message)
    ELSE Response(500, "error", message)

Absent == [present |-> FALSE]
Present(v) == [present |-> TRUE, value |-> v]

\* the calls an invocation makes to its collaborators and to the response
\* object, recorded in the order in which it makes them
UsersGet == "users.get"
UsersSet == "users.set"
UsersUpdate == "users.update"
OracleCall == "chat.completions.create"
JobsSet == "simplificationJobs.set"
JobsUpdate == "simplificationJobs.update"
JobsGet == "simplificationJobs.get"
SendResponse == "response.send"

NoReport ==
    [token |-> Unread, jobId |-> NoJob, issued |-> FALSE, snapshot |-> NoDoc,
     code |-> 0, status |-> "", analysis |-> Absent, details |-> Absent,
     calls |-> <<>>]

\* a simplifyText invocation that has read nothing yet
NewRequest(method) ==
    [method |-> method,
     token |-> Unread,
     body |-> [title |-> Unread, paragraphs |-> MissingValue],
     profile |-> NoDoc,
     guidelines |-> <<>>,
     reply |-> NoReply,
     originalFullText |-> <<>>,
     simplifiedParagraphs |-> <<>>,
     simplifiedFullText |-> <<>>,
     jobId |-> NoJob,
     pc |-> "start",
     response |-> NoResponse,
     updatesIssued |-> 0,
     uncaught |-> FALSE,
     calls |-> <<>>]

Called(r, call) == [r EXCEPT !.calls = Append(@, call)]

Finish(r, response) ==
    [Called(r, SendResponse) EXCEPT !.pc = "done", !.response = response]

\* the job ids that some request has generated
GeneratedIds == {requests[i].jobId : i \in DOMAIN requests} \ {NoJob}

\* crypto.randomBytes(16).toString('hex'): 128 random bits, taken to differ
\* from every id generated before; ids are interchangeable, so the smallest
\* unused one stands for any fresh value
randomBytes ==
    LET unused == (1..Len(requests)) \ GeneratedIds
    IN  {id \in unused : \A other \in unused : id <= other}

\* the job ids that a 200 response has handed to a client
IssuedIds ==
    {requests[i].response.jobId :
        i \in {k \in DOMAIN requests : requests[k].response.code = 200}}

\* DocSet when the write is not persisted under the generated id
DocSet_NotPersisted(jobs, id, data) == jobs

\* DocumentReference.set(data): writes the whole document
DocSet(jobs, id, data) ==
    [j \in DOMAIN jobs \cup {id} |-> IF j = id THEN data ELSE jobs[j]]

\* DocUpdate when the given fields replace the document, as set does
DocUpdate_Replaces(jobs, id, fields) == [jobs EXCEPT ![id] = fields]

\* DocumentReference.update(fields): writes the given fields of an existing
\* document and leaves its other fields
DocUpdate(jobs, id, fields) ==
    [jobs EXCEPT ![id] =
        [f \in DOMAIN fields \cup DOMAIN jobs[id] |->
            IF f \in DOMAIN fields THEN fields[f] ELSE jobs[id][f]]]

Init ==
    /\ users = StoredUsers
    /\ simplificationJobs = <<>>
    /\ requests = <<>>
    /\ report = NoReport
    /\ profileRequests = <<>>
    /\ dictionaryJobs = <<>>
    /\ dictionaryRequests = <<>>

(***************************************************************************)
(* simplifyText, lines 18-136: from the arrival of the request to the      *)
(* chat completion call                                                    *)
(***************************************************************************)
\* simplifyTextStart without the rejection of lines 43-49
simplifyTextStart_NoRejection(method, token, body, profileReadOk) ==
    LET r0 == NewRequest(method)
        auth == getAuthenticatedUser(token)
        r1 == [r0 EXCEPT !.token = token]
        userProfileSnap == users[auth.uid]
        r1g == Called(r1, UsersGet)
        r2 == [r1g EXCEPT !.profile = userProfileSnap]
        r3 == [r2 EXCEPT !.body = body]
        readingProfile == userProfileSnap.data.readingProfile
    IN  IF method # "POST"
        THEN Finish(r0, Response(405, "", "Only POST requests are allowed."))
        ELSE IF ~auth.ok THEN Finish(r1, ErrorResponse(auth.message))
        ELSE IF ~profileReadOk
             THEN Finish(r1g, ErrorResponse(ProfileStoreMessage))
        ELSE IF ~userProfileSnap.exists
             THEN Finish(r2, Response(404, "error", "no profile"))
        ELSE IF body.title = Missing \/ ~body.paragraphs.present
                  \/ ~body.paragraphs.isArray
             THEN Finish(r3, Response(400, "", "Invalid request data."))
        ELSE [Called(r3, OracleCall) EXCEPT
                 !.guidelines = guidelineSentences(readingProfile),
                 !.originalFullText = JoinTexts(body.paragraphs.items),
                 !.pc = "awaitOracle"]

\* simplifyTextStart without the check of userProfileSnap.exists: the data
\* of a missing document is undefined and reading its profile throws
simplifyTextStart_NoProfileCheck(method, token, body, profileReadOk) ==
    LET r0 == NewRequest(method)
        auth == getAuthenticatedUser(token)
        r1 == [r0 EXCEPT !.token = token]
        userProfileSnap == users[auth.uid]
        r1g == Called(r1, UsersGet)
        r2 == [r1g EXCEPT !.profile = userProfileSnap]
        r3 == [r2 EXCEPT !.body = body]
        readingProfile == userProfileSnap.data.readingProfile
    IN  IF method # "POST"
        THEN Finish(r0, Response(405, "", "Only POST requests are allowed."))
        ELSE IF ~auth.ok THEN Finish(r1, ErrorResponse(auth.message))
        ELSE IF ~profileReadOk
             THEN Finish(r1g, ErrorResponse(ProfileStoreMessage))
        ELSE IF body.title = Missing \/ ~body.paragraphs.present
                  \/ ~body.paragraphs.isArray
             THEN Finish(r3, Response(400, "", "Invalid request data."))
        ELSE IF ~userProfileSnap.exists
             THEN Finish(r3, ErrorResponse("userProfile is undefined"))
        ELSE IF readingProfile.sentence = 0 /\ readingProfile.vocabulary = 0
             THEN Finish(r3, Response(400, "rejected", "profile not set"))
        ELSE [Called(r3, OracleCall) EXCEPT
                 !.guidelines = guidelineSentences(readingProfile),
                 !.originalFullText = JoinTexts(body.paragraphs.items),
                 !.pc = "awaitOracle"]

\* simplifyTextStart without Array.isArray in the validation of the body:
\* paragraphs.map of line 79 throws for a value that is not an array
simplifyTextStart_NoArrayCheck(method, token, body, profileReadOk) ==
    LET r0 == NewRequest(method)
        auth == getAuthenticatedUser(token)
        r1 == [r0 EXCEPT !.token = token]
        userProfileSnap == users[auth.uid]
        r1g == Called(r1, UsersGet)
        r2 == [r1g EXCEPT !.profile = userProfileSnap]
        r3 == [r2 EXCEPT !.body = body]
        readingProfile == userProfileSnap.data.readingProfile
    IN  IF method # "POST"
        THEN Finish(r0, Response(405, "", "Only POST requests are allowed."))
        ELSE IF ~auth.ok THEN Finish(r1, ErrorResponse(auth.message))
        ELSE IF ~profileReadOk
             THEN Finish(r1g, ErrorResponse(ProfileStoreMessage))
        ELSE IF ~userProfileSnap.exists
             THEN Finish(r2, Response(404, "error", "no profile"))
        ELSE IF body.title = Missing \/ ~body.paragraphs.present
             THEN Finish(r3, Response(400, "", "Invalid request data."))
        ELSE IF readingProfile.sentence = 0 /\ readingProfile.vocabulary = 0
             THEN Finish(r3, Response(400, "rejected", "profile not set"))
        ELSE IF ~body.paragraphs.isArray
             THEN Finish(r3, ErrorResponse("paragraphs.map is not a function"))
        ELSE [Called(r3, OracleCall) EXCEPT
                 !.guidelines = guidelineSentences(readingProfile),
                 !.originalFullText = JoinTexts(body.paragraphs.items),
                 !.pc = "awaitOracle"]

simplifyTextStart(method, token, body, profileReadOk) ==
    LET r0 == NewRequest(method)
        auth == getAuthenticatedUser(token)
        r1 == [r0 EXCEPT !.token = token]
        userProfileSnap == users[auth.uid]
        r1g == Called(r1, UsersGet)
        r2 == [r1g EXCEPT !.profile = userProfileSnap]
        r3 == [r2 EXCEPT !.body = body]
        readingProfile == userProfileSnap.data.readingProfile
    IN  IF method # "POST"
        THEN Finish(r0, Response(405, "", "Only POST requests are allowed."))
        ELSE IF ~auth.ok THEN Finish(r1, ErrorResponse(auth.message))
        ELSE IF ~profileReadOk
             THEN Finish(r1g, ErrorResponse(ProfileStoreMessage))
        ELSE IF ~userProfileSnap.exists
             THEN Finish(r2, Response(404, "error", "no profile"))
        ELSE IF body.title = Missing \/ ~body.paragraphs.present
                  \/ ~body.paragraphs.isArray
             THEN Finish(r3, Response(400, "", "Invalid request data."))
        ELSE IF readingProfile.sentence = 0 /\ readingProfile.vocabulary = 0
             THEN Finish(r3, Response(400, "rejected", "profile not set"))
        ELSE [Called(r3, OracleCall) EXCEPT
                 !.guidelines = guidelineSentences(readingProfile),
                 !.originalFullText = JoinTexts(body.paragraphs.items),
                 !.pc = "awaitOracle"]

\* an input that the handler does not read on the path taken has no
\* effect, so one value of it is enough
ReadsInputs(method, token, body, profileReadOk) ==
    LET authenticated == method = "POST" /\ getAuthenticatedUser(token).ok
    IN  /\ method # "POST" => token = NoToken
        /\ ~authenticated => profileReadOk
        /\ ~(authenticated /\ profileReadOk /\ users[token].exists)
              => body = [title |-> Missing, paragraphs |-> Array(<<>>)]

ReceiveSimplifyText ==
    /\ Len(requests) < MaxRequests
    /\ \E method \in {"POST", "GET"}, token \in Tokens, body \in Bodies,
          profileReadOk \in BOOLEAN :
          /\ ReadsInputs(method, token, body, profileReadOk)
          /\ requests' = Append(requests,
                                simplifyTextStart(method, token, body,
                                                  profileReadOk))
    /\ report = NoReport
    /\ UNCHANGED report
    /\ UNCHANGED <<users, simplificationJobs,
                 profileRequests, dictionaryJobs, dictionaryRequests>>

(***************************************************************************)
(* simplifyText, lines 103-157: the chat completion settles; the handler   *)
(* parses it, generates the job id and calls jobRef.set                    *)
(***************************************************************************)
\* simplifyTextOnReply when a message without tool call is read as empty
\* arguments instead of being answered with 500
simplifyTextOnReply_NoToolCallCheck(r, reply, id) ==
    LET r1 == [r EXCEPT !.reply = reply]
        given == reply.simplified_paragraphs
        simplifiedParagraphs == IF given.present THEN given.items ELSE <<>>
    IN  IF reply.kind = "throws" THEN Finish(r1, ErrorResponse(OracleMessage))
        ELSE IF reply.kind = "malformedJson"
             THEN Finish(r1, ErrorResponse(ParseMessage))
        ELSE IF given.present /\ ~given.isArray
             THEN Finish(r1, ErrorResponse(NotIterableMessage))
        ELSE [Called(r1, JobsSet) EXCEPT
                 !.simplifiedParagraphs = simplifiedParagraphs,
                 !.simplifiedFullText = JoinTexts(simplifiedParagraphs),
                 !.jobId = id,
                 !.pc = "awaitSet"]

simplifyTextOnReply(r, reply, id) ==
    LET r1 == [r EXCEPT !.reply = reply]
        given == reply.simplified_paragraphs
        simplifiedParagraphs == IF given.present THEN given.items ELSE <<>>
    IN  IF reply.kind = "throws" THEN Finish(r1, ErrorResponse(OracleMessage))
        ELSE IF reply.kind = "noToolCall"
             THEN Finish(r1, Response(500, "error", "no valid result"))
        ELSE IF reply.kind = "malformedJson"
             THEN Finish(r1, ErrorResponse(ParseMessage))
        ELSE IF given.present /\ ~given.isArray
             THEN Finish(r1, ErrorResponse(NotIterableMessage))
        ELSE [Called(r1, JobsSet) EXCEPT
                 !.simplifiedParagraphs = simplifiedParagraphs,
                 !.simplifiedFullText = JoinTexts(simplifiedParagraphs),
                 !.jobId = id,
                 !.pc = "awaitSet"]

OracleReturns(i) ==
    /\ requests[i].pc = "awaitOracle"
    /\ \E reply \in OracleReplies(requests[i].body.paragraphs.items),
          id \in randomBytes :
          requests' = [requests EXCEPT
                          ![i] = simplifyTextOnReply(requests[i], reply, id)]
    /\ report = NoReport
    /\ UNCHANGED report
    /\ UNCHANGED <<users, simplificationJobs,
                 profileRequests, dictionaryJobs, dictionaryRequests>>

(***************************************************************************)
(* jobRef.set of lines 151-157 at the store: the document is written, or   *)
(* the write is rejected and the handler's catch block answers             *)
(***************************************************************************)
NewJob(r, createdAt) ==
    [userId |-> r.token,
     status |-> "processing",
     createdAt |-> createdAt,
     originalText |-> r.originalFullText,
     simplifiedText |-> r.simplifiedFullText]

JobSet(i) ==
    /\ requests[i].pc = "awaitSet"
    /\ \/ /\ simplificationJobs' =
                DocSet(simplificationJobs, requests[i].jobId,
                       NewJob(requests[i],
                              Cardinality(DOMAIN simplificationJobs) + 1))
          /\ requests' = [requests EXCEPT ![i].pc = "created"]
       \/ /\ requests' = [requests EXCEPT
                             ![i] = Finish(@, ErrorResponse(JobStoreMessage))]
          /\ UNCHANGED simplificationJobs
    /\ report = NoReport
    /\ UNCHANGED report
    /\ UNCHANGED <<users, profileRequests, dictionaryJobs,
                 dictionaryRequests>>

(***************************************************************************)
(* simplifyText, lines 159-205: after the set has resolved the handler     *)
(* sends the 200 response and calls generateAndSaveReport, which runs the  *)
(* analysis and calls jobRef.update before it first yields                 *)
(***************************************************************************)
\* SuccessResponse when it returns the paragraphs of the request body
SuccessResponse_SubmittedParagraphs(r) ==
    [code |-> 200, status |-> "processing", jobId |-> r.jobId,
     simplified_paragraphs |-> r.body.paragraphs.items, details |-> ""]

SuccessResponse(r) ==
    [code |-> 200, status |-> "processing", jobId |-> r.jobId,
     simplified_paragraphs |-> r.simplifiedParagraphs, details |-> ""]

\* Respond when jobRef.set is not awaited: the response and the finisher go
\* ahead while the write is still on its way
Respond_SetNotAwaited(i) ==
    /\ requests[i].pc \in {"awaitSet", "created"}
    /\ requests' = [requests EXCEPT
                       ![i].response = SuccessResponse(requests[i]),
                       ![i].updatesIssued = 1,
                       ![i].calls = @ \o <<SendResponse, JobsUpdate>>,
                       ![i].pc = "awaitUpdate"]
    /\ report = NoReport
    /\ UNCHANGED report
    /\ UNCHANGED <<users, simplificationJobs,
                 profileRequests, dictionaryJobs, dictionaryRequests>>

\* Respond when generateAndSaveReport is called before response.json
Respond_FinisherFirst(i) ==
    /\ requests[i].pc = "created"
    /\ requests' = [requests EXCEPT
                       ![i].response = SuccessResponse(requests[i]),
                       ![i].updatesIssued = 1,
                       ![i].calls = @ \o <<JobsUpdate, SendResponse>>,
                       ![i].pc = "awaitUpdate"]
    /\ report = NoReport
    /\ UNCHANGED report
    /\ UNCHANGED <<users, simplificationJobs,
                 profileRequests, dictionaryJobs, dictionaryRequests>>

Respond(i) ==
    /\ requests[i].pc = "created"
    /\ requests' = [requests EXCEPT
                       ![i].response = SuccessResponse(requests[i]),
                       ![i].updatesIssued = 1,
                       ![i].calls = @ \o <<SendResponse, JobsUpdate>>,
                       ![i].pc = "awaitUpdate"]
    /\ report = NoReport
    /\ UNCHANGED report
    /\ UNCHANGED <<users, simplificationJobs,
                 profileRequests, dictionaryJobs, dictionaryRequests>>

(***************************************************************************)
(* generateAndSaveReport, lines 202-209: the update of the try block       *)
(* settles; when it is rejected the catch block calls jobRef.update again  *)
(***************************************************************************)
\* CompletedFields when the report is left out of the update
CompletedFields_StatusOnly(r) == [status |-> "completed"]

\* CompletedFields when the texts are kept in variables of the module that
\* every request overwrites: the report is made of the latest request's texts
CompletedFields_LatestRequest(r) ==
    [status |-> "completed",
     analysis |-> analysisReport(requests[Len(requests)].originalFullText,
                                 requests[Len(requests)].simplifiedFullText)]

CompletedFields(r) ==
    [status |-> "completed",
     analysis |-> analysisReport(r.originalFullText, r.simplifiedFullText)]

\* UpdateCompleted when status and analysis are written by two updates, the
\* status first
UpdateCompleted_StatusFirst(i) ==
    /\ requests[i].pc = "awaitUpdate"
    /\ requests[i].jobId \in DOMAIN simplificationJobs
    /\ IF simplificationJobs[requests[i].jobId].status = "processing"
       THEN /\ simplificationJobs' =
                  DocUpdate(simplificationJobs, requests[i].jobId,
                            [status |-> "completed"])
            /\ UNCHANGED requests
       ELSE /\ simplificationJobs' =
                  DocUpdate(simplificationJobs, requests[i].jobId,
                            CompletedFields(requests[i]))
            /\ requests' = [requests EXCEPT ![i].pc = "done"]
    /\ report = NoReport
    /\ UNCHANGED report
    /\ UNCHANGED <<users, profileRequests, dictionaryJobs,
                 dictionaryRequests>>

UpdateCompleted(i) ==
    /\ requests[i].pc = "awaitUpdate"
    /\ \/ /\ requests[i].jobId \in DOMAIN simplificationJobs
          /\ simplificationJobs' =
                DocUpdate(simplificationJobs, requests[i].jobId,
                          CompletedFields(requests[i]))
          /\ requests' = [requests EXCEPT ![i].pc = "done"]
       \/ /\ requests' = [requests EXCEPT
                             ![i].updatesIssued = 2,
                             ![i].calls = Append(@, JobsUpdate),
                             ![i].pc = "awaitCatchUpdate"]
          /\ UNCHANGED simplificationJobs
    /\ report = NoReport
    /\ UNCHANGED report
    /\ UNCHANGED <<users, profileRequests, dictionaryJobs,
                 dictionaryRequests>>

(***************************************************************************)
(* generateAndSaveReport, line 209: the update of the catch block settles; *)
(* its rejection is the rejection of the promise that nothing awaits       *)
(***************************************************************************)
\* UpdateFailed when the handler awaits generateAndSaveReport: the rejection
\* of the second update reaches the catch block of lines 215-222
UpdateFailed_Awaited(i) ==
    /\ requests[i].pc = "awaitCatchUpdate"
    /\ \/ /\ requests[i].jobId \in DOMAIN simplificationJobs
          /\ simplificationJobs' =
                DocUpdate(simplificationJobs, requests[i].jobId,
                          [status |-> "failed", error |-> JobStoreMessage])
          /\ requests' = [requests EXCEPT ![i].pc = "done"]
       \/ /\ requests' = [requests EXCEPT
                             ![i] = Finish(@, ErrorResponse(JobStoreMessage))]
          /\ UNCHANGED simplificationJobs
    /\ report = NoReport
    /\ UNCHANGED report
    /\ UNCHANGED <<users, profileRequests, dictionaryJobs,
                 dictionaryRequests>>

FailedFields(message) == [status |-> "failed", error |-> message]

UpdateFailed(i) ==
    /\ requests[i].pc = "awaitCatchUpdate"
    /\ \/ /\ requests[i].jobId \in DOMAIN simplificationJobs
          /\ simplificationJobs' =
                DocUpdate(simplificationJobs, requests[i].jobId,
                          FailedFields(JobStoreMessage))
          /\ requests' = [requests EXCEPT ![i].pc = "done"]
       \/ /\ requests' = [requests EXCEPT
                             ![i].uncaught = TRUE,
                             ![i].pc = "done"]
          /\ UNCHANGED simplificationJobs
    /\ report = NoReport
    /\ UNCHANGED report
    /\ UNCHANGED <<users, profileRequests, dictionaryJobs,
                 dictionaryRequests>>

(***************************************************************************)
(* getSimplificationReport, lines 229-268.  A query reads the store once   *)
(* and changes nothing; its answer is held in report until it is sent.     *)
(* The steps of simplifyText are not interleaved between the read and the  *)
(* sending of one query: a query changes nothing that they read, so every  *)
(* order of the reads and the writes is still there.                       *)
(***************************************************************************)
Field(data, f) == IF f \in DOMAIN data THEN Present(data[f]) ELSE Absent

\* getSimplificationReport without the branch for status processing
getSimplificationReport_NoProcessingBranch(token, jobId, readOk) ==
    LET auth == getAuthenticatedUser(token)
        q0 == [NoReport EXCEPT !.token = token]
        q1 == [q0 EXCEPT !.jobId = jobId, !.issued = jobId \in IssuedIds]
        jobSnap == IF jobId \in DOMAIN simplificationJobs
                   THEN Doc(simplificationJobs[jobId])
                   ELSE NoDoc
        q1g == [q1 EXCEPT !.calls = <<JobsGet>>]
        q2 == [q1g EXCEPT !.snapshot = jobSnap]
        jobData == jobSnap.data
    IN  IF ~auth.ok
        THEN [q0 EXCEPT !.code = ErrorResponse(auth.message).code,
                        !.status = "error",
                        !.details = Present(auth.message)]
        ELSE IF jobId = NoJob
             THEN [q1 EXCEPT !.code = 400, !.status = "error"]
        ELSE IF ~readOk
             THEN [q1g EXCEPT !.code = ErrorResponse(JobReadMessage).code,
                              !.status = "error",
                              !.details = Present(JobReadMessage)]
        ELSE IF ~jobSnap.exists
             THEN [q2 EXCEPT !.code = 404, !.status = "error"]
        ELSE IF jobData.status = "completed"
             THEN [q2 EXCEPT !.code = 200, !.status = "completed",
                             !.analysis = Field(jobData, "analysis")]
        ELSE [q2 EXCEPT !.code = 500, !.status = "failed",
                        !.details = Field(jobData, "error")]

\* getSimplificationReport without the check of jobSnap.exists: the data of
\* a missing document is undefined and reading its status throws
getSimplificationReport_NoExistsCheck(token, jobId, readOk) ==
    LET auth == getAuthenticatedUser(token)
        q0 == [NoReport EXCEPT !.token = token]
        q1 == [q0 EXCEPT !.jobId = jobId, !.issued = jobId \in IssuedIds]
        jobSnap == IF jobId \in DOMAIN simplificationJobs
                   THEN Doc(simplificationJobs[jobId])
                   ELSE NoDoc
        q1g == [q1 EXCEPT !.calls = <<JobsGet>>]
        q2 == [q1g EXCEPT !.snapshot = jobSnap]
        jobData == jobSnap.data
    IN  IF ~auth.ok
        THEN [q0 EXCEPT !.code = ErrorResponse(auth.message).code,
                        !.status = "error",
                        !.details = Present(auth.message)]
        ELSE IF jobId = NoJob
             THEN [q1 EXCEPT !.code = 400, !.status = "error"]
        ELSE IF ~readOk
             THEN [q1g EXCEPT !.code = ErrorResponse(JobReadMessage).code,
                              !.status = "error",
                              !.details = Present(JobReadMessage)]
        ELSE IF ~jobSnap.exists
             THEN [q2 EXCEPT !.code = 500, !.status = "error",
                             !.details = Present("jobData is undefined")]
        ELSE IF jobData.status = "completed"
             THEN [q2 EXCEPT !.code = 200, !.status = "completed",
                             !.analysis = Field(jobData, "analysis")]
        ELSE IF jobData.status = "processing"
             THEN [q2 EXCEPT !.code = 202, !.status = "processing"]
        ELSE [q2 EXCEPT !.code = 500, !.status = "failed",
                        !.details = Field(jobData, "error")]

getSimplificationReport(token, jobId, readOk) ==
    LET auth == getAuthenticatedUser(token)
        q0 == [NoReport EXCEPT !.token = token]
        q1 == [q0 EXCEPT !.jobId = jobId, !.issued = jobId \in IssuedIds]
        jobSnap == IF jobId \in DOMAIN simplificationJobs
                   THEN Doc(simplificationJobs[jobId])
                   ELSE NoDoc
        q1g == [q1 EXCEPT !.calls = <<JobsGet>>]
        q2 == [q1g EXCEPT !.snapshot = jobSnap]
        jobData == jobSnap.data
    IN  IF ~auth.ok
        THEN [q0 EXCEPT !.code = ErrorResponse(auth.message).code,
                        !.status = "error",
                        !.details = Present(auth.message)]
        ELSE IF jobId = NoJob
             THEN [q1 EXCEPT !.code = 400, !.status = "error"]
        ELSE IF ~readOk
             THEN [q1g EXCEPT !.code = ErrorResponse(JobReadMessage).code,
                              !.status = "error",
                              !.details = Present(JobReadMessage)]
        ELSE IF ~jobSnap.exists
             THEN [q2 EXCEPT !.code = 404, !.status = "error"]
        ELSE IF jobData.status = "completed"
             THEN [q2 EXCEPT !.code = 200, !.status = "completed",
                             !.analysis = Field(jobData, "analysis")]
        ELSE IF jobData.status = "processing"
             THEN [q2 EXCEPT !.code = 202, !.status = "processing"]
        ELSE [q2 EXCEPT !.code = 500, !.status = "failed",
                        !.details = Field(jobData, "error")]

\* QueryReport when a completed report is removed from the store once it
\* has been read for delivery
QueryReport_DeletesDelivered ==
    /\ report = NoReport
    /\ \E token \in Tokens, jobId \in JobIds \cup {NoJob}, readOk \in BOOLEAN :
          /\ ~getAuthenticatedUser(token).ok => jobId = NoJob
          /\ jobId = NoJob => readOk
          /\ report' = getSimplificationReport(token, jobId, readOk)
          /\ simplificationJobs' =
                IF report'.code = 200
                THEN [j \in DOMAIN simplificationJobs \ {jobId} |->
                         simplificationJobs[j]]
                ELSE simplificationJobs
    /\ UNCHANGED <<users, requests,
                 profileRequests, dictionaryJobs, dictionaryRequests>>

QueryReport ==
    /\ report = NoReport
    /\ \E token \in Tokens, jobId \in JobIds \cup {NoJob}, readOk \in BOOLEAN :
          /\ ~getAuthenticatedUser(token).ok => jobId = NoJob
          /\ jobId = NoJob => readOk
          /\ report' = getSimplificationReport(token, jobId, readOk)
    /\ UNCHANGED <<users, simplificationJobs, requests,
                 profileRequests, dictionaryJobs, dictionaryRequests>>

\* the response of the query has been sent and its invocation is over
ReportSent ==
    /\ report # NoReport
    /\ report' = NoReport
    /\ UNCHANGED <<users, simplificationJobs, requests,
                 profileRequests, dictionaryJobs, dictionaryRequests>>

(***************************************************************************)
(* Specifications                                                          *)
(***************************************************************************)
Next ==
    \/ ReceiveSimplifyText
    \/ \E i \in DOMAIN requests : OracleReturns(i)
    \/ \E i \in DOMAIN requests : JobSet(i)
    \/ \E i \in DOMAIN requests : Respond(i)
    \/ \E i \in DOMAIN requests : UpdateCompleted(i)
    \/ \E i \in DOMAIN requests : UpdateFailed(i)
    \/ QueryReport
    \/ ReportSent

Spec == Init /\ [][Next]_vars

\* Submissions in flight together: u1, whose profile is active, submits
\* well-formed bodies and the chat completion returns paragraphs, so that
\* every request gets to its job record and its finisher; the job store
\* resolves or rejects each write as before.
ReceiveSubmission ==
    /\ Len(requests) < MaxConcurrent
    /\ \E ps \in ParagraphLists :
          requests' = Append(requests,
                            simplifyTextStart("POST", "u1",
                                              [title |-> "title",
                                               paragraphs |-> Array(ps)],
                                              TRUE))
    /\ report = NoReport
    /\ UNCHANGED report
    /\ UNCHANGED <<users, simplificationJobs,
                 profileRequests, dictionaryJobs, dictionaryRequests>>

OracleRewrites(i) ==
    /\ requests[i].pc = "awaitOracle"
    /\ \E l \in LET ps == requests[i].body.paragraphs.items
                 IN  {ps, [k \in DOMAIN ps |-> Paragraph(ps[k].id, TextEasy)]},
          id \in randomBytes :
          requests' = [requests EXCEPT
                          ![i] = simplifyTextOnReply(
                                     requests[i],
                                     [kind |-> "arguments",
                                      simplified_paragraphs |-> Array(l)],
                                     id)]
    /\ report = NoReport
    /\ UNCHANGED report
    /\ UNCHANGED <<users, simplificationJobs,
                 profileRequests, dictionaryJobs, dictionaryRequests>>

\* The same submissions when the 16 random bytes are any value of the id
\* space, one that an earlier request has drawn included.
RandomIds == 1..MaxConcurrent

OracleRewritesAnyId(i) ==
    /\ requests[i].pc = "awaitOracle"
    /\ \E l \in LET ps == requests[i].body.paragraphs.items
                 IN  {ps, [k \in DOMAIN ps |-> Paragraph(ps[k].id, TextEasy)]},
          id \in RandomIds :
          requests' = [requests EXCEPT
                          ![i] = simplifyTextOnReply(
                                     requests[i],
                                     [kind |-> "arguments",
                                      simplified_paragraphs |-> Array(l)],
                                     id)]
    /\ report = NoReport
    /\ UNCHANGED report
    /\ UNCHANGED <<users, simplificationJobs,
                 profileRequests, dictionaryJobs, dictionaryRequests>>

NextAnyId ==
    \/ ReceiveSubmission
    \/ \E i \in DOMAIN requests : OracleRewritesAnyId(i)
    \/ \E i \in DOMAIN requests : JobSet(i)
    \/ \E i \in DOMAIN requests : Respond(i)
    \/ \E i \in DOMAIN requests : UpdateCompleted(i)
    \/ \E i \in DOMAIN requests : UpdateFailed(i)

SpecAnyId == Init /\ [][NextAnyId]_vars

NextConcurrent ==
    \/ ReceiveSubmission
    \/ \E i \in DOMAIN requests : OracleRewrites(i)
    \/ \E i \in DOMAIN requests : JobSet(i)
    \/ \E i \in DOMAIN requests : Respond(i)
    \/ \E i \in DOMAIN requests : UpdateCompleted(i)
    \/ \E i \in DOMAIN requests : UpdateFailed(i)

SpecConcurrent == Init /\ [][NextConcurrent]_vars

\* One submission of u1 whose paragraph has any of the texts and is
\* rewritten by the chat completion: the finisher analyses both texts.
ReceiveText ==
    /\ requests = <<>>
    /\ \E t \in Texts :
          requests' = Append(requests,
                            simplifyTextStart("POST", "u1",
                                              [title |-> "title",
                                               paragraphs |->
                                                   Array(<<Paragraph(1, t)>>)],
                                              TRUE))
    /\ report = NoReport
    /\ UNCHANGED report
    /\ UNCHANGED <<users, simplificationJobs,
                 profileRequests, dictionaryJobs, dictionaryRequests>>

OracleWrites(i) ==
    /\ requests[i].pc = "awaitOracle"
    /\ \E t \in Rewrites(requests[i].body.paragraphs.items[1].text),
          id \in randomBytes :
          requests' = [requests EXCEPT
                          ![i] = simplifyTextOnReply(
                                     requests[i],
                                     [kind |-> "arguments",
                                      simplified_paragraphs |->
                                          Array(<<Paragraph(1, t)>>)],
                                     id)]
    /\ report = NoReport
    /\ UNCHANGED report
    /\ UNCHANGED <<users, simplificationJobs,
                 profileRequests, dictionaryJobs, dictionaryRequests>>

NextAnalysis ==
    \/ ReceiveText
    \/ \E i \in DOMAIN requests : OracleWrites(i)
    \/ \E i \in DOMAIN requests : JobSet(i)
    \/ \E i \in DOMAIN requests : Respond(i)
    \/ \E i \in DOMAIN requests : UpdateCompleted(i)
    \/ \E i \in DOMAIN requests : UpdateFailed(i)

SpecAnalysis == Init /\ [][NextAnalysis]_vars

\* the same handlers when u1 has stored any of the documented profiles
InitProfiles ==
    /\ users \in {[StoredUsers EXCEPT !["u1"] = Doc([readingProfile |-> p])] :
                     p \in ReadingProfiles}
    /\ simplificationJobs = <<>>
    /\ requests = <<>>
    /\ report = NoReport
    /\ profileRequests = <<>>
    /\ dictionaryJobs = <<>>
    /\ dictionaryRequests = <<>>

SpecProfiles == InitProfiles /\ [][Next]_vars

(***************************************************************************)
(* functions/api/profile.js: createUserProfile and                         *)
(* updateRecommendationSettings.  The file is in the sources in three      *)
(* versions; the model is of the last one (src/unnamed/part_002, lines     *)
(* 396-538), which reads the profile before it writes it.                  *)
(***************************************************************************)
\* request bodies of createUserProfile: readingProfile and knownTopics,
\* each given or left out
ProfileBodies ==
    [readingProfile : {Absent, Present([sentence |-> 1, vocabulary |-> 2])},
     knownTopics : {Absent, Present(<<>>)}]

\* request bodies of updateRecommendationSettings: getRecommendations is a
\* boolean or something else (left out, a string)
SettingsBodies ==
    [getRecommendations :
        {[isBoolean |-> FALSE, value |-> FALSE],
         [isBoolean |-> TRUE, value |-> FALSE],
         [isBoolean |-> TRUE, value |-> TRUE]}]

ProfileReadMessage == "users.get rejected"
ProfileWriteMessage == "users.set rejected"
SettingsUpdateMessage == "users.update rejected"

\* an HTTP response of the two profile handlers
ProfileResponse(code, profile) == [code |-> code, profile |-> profile]

NewProfileRequest(handler, method) ==
    [handler |-> handler,
     method |-> method,
     token |-> Unread,
     body |-> Unread,
     snapshot |-> NoDoc,
     profileData |-> <<>>,
     written |-> FALSE,
     pc |-> "start",
     response |-> ProfileResponse(0, Absent),
     calls |-> <<>>]

ProfileFinish(r, code, profile) ==
    [Called(r, SendResponse) EXCEPT
        !.pc = "done", !.response = ProfileResponse(code, profile)]

\* FieldValue.serverTimestamp(): the time of the store when it applies the
\* write, counted in writes to the users collection
ServerTimestamp ==
    1 + Cardinality({i \in DOMAIN profileRequests :
                        profileRequests[i].written})

\* DocumentReference.set(data, { merge: true }): creates the document or
\* writes the given fields into it and leaves its other fields
DocSetMerge(docs, id, fields) ==
    [docs EXCEPT ![id] =
        IF docs[id].exists
        THEN Doc([f \in DOMAIN fields \cup DOMAIN docs[id].data |->
                     IF f \in DOMAIN fields THEN fields[f]
                     ELSE docs[id].data[f]])
        ELSE Doc(fields)]

\* createUserProfile, lines 441-456: up to the first read of the profile
createUserProfileStart(method, token, body) ==
    LET r0 == NewProfileRequest("createUserProfile", method)
        auth == getAuthenticatedUser(token)
        r1 == [r0 EXCEPT !.token = token]
        r2 == [r1 EXCEPT !.body = body]
    IN  IF method # "POST" THEN ProfileFinish(r0, 405, Absent)
        ELSE IF ~auth.ok
             THEN ProfileFinish(r1, ErrorResponse(auth.message).code, Absent)
        ELSE IF ~body.readingProfile.present \/ ~body.knownTopics.present
             THEN ProfileFinish(r2, 400, Absent)
        ELSE [Called(r2, UsersGet) EXCEPT !.pc = "awaitGet"]

\* createUserProfile when getRecommendations is part of every write
\* (functions/api/profile.js, lines 67-74)
createUserProfileOnSnapshot_AlwaysTrue(r, userProfileSnap) ==
    [Called(r, UsersSet) EXCEPT
        !.snapshot = userProfileSnap,
        !.profileData = [readingProfile |-> r.body.readingProfile.value,
                         knownTopics |-> r.body.knownTopics.value,
                         email |-> r.token,
                         displayName |-> Missing,
                         getRecommendations |-> TRUE],
        !.pc = "awaitSet"]

\* createUserProfile, lines 458-471: the read has resolved; profileData is
\* built and written with merge.  email and name are those of the decoded
\* token, which the uid stands for; no name is given (displayName: null).
createUserProfileOnSnapshot(r, userProfileSnap) ==
    LET profileData == [readingProfile |-> r.body.readingProfile.value,
                        knownTopics |-> r.body.knownTopics.value,
                        email |-> r.token,
                        displayName |-> Missing]
    IN  [Called(r, UsersSet) EXCEPT
            !.snapshot = userProfileSnap,
            !.profileData =
                IF ~userProfileSnap.exists
                THEN profileData @@ [getRecommendations |-> TRUE]
                ELSE profileData,
            !.pc = "awaitSet"]

\* an input that the handler does not read on the path taken
ReadsProfileInputs(method, token, body, unreadBody) ==
    /\ method # "POST" => token = NoToken
    /\ ~(method = "POST" /\ getAuthenticatedUser(token).ok)
          => body = unreadBody

ReceiveCreateUserProfile ==
    /\ Len(profileRequests) < MaxProfileRequests
    /\ \E method \in {"POST", "GET"}, token \in Tokens,
          body \in ProfileBodies :
          /\ ReadsProfileInputs(method, token, body,
                                [readingProfile |-> Absent,
                                 knownTopics |-> Absent])
          /\ profileRequests' =
                Append(profileRequests,
                       createUserProfileStart(method, token, body))
    /\ UNCHANGED <<users, simplificationJobs, requests, report,
                   dictionaryJobs, dictionaryRequests>>

\* userProfileRef.get() of line 456 settles
ProfileGet(i) ==
    /\ profileRequests[i].handler = "createUserProfile"
    /\ profileRequests[i].pc = "awaitGet"
    /\ \/ profileRequests' =
             [profileRequests EXCEPT
                 ![i] = createUserProfileOnSnapshot(@, users[@.token])]
       \/ profileRequests' =
             [profileRequests EXCEPT
                 ![i] = ProfileFinish(@,
                            ErrorResponse(ProfileReadMessage).code, Absent)]
    /\ UNCHANGED <<users, simplificationJobs, requests, report,
                   dictionaryJobs, dictionaryRequests>>

\* userProfileRef.set(profileData, { merge: true }) of line 471 settles;
\* after it the handler reads the profile again (line 474)
ProfileSet(i) ==
    /\ profileRequests[i].handler = "createUserProfile"
    /\ profileRequests[i].pc = "awaitSet"
    /\ \/ /\ users' =
                DocSetMerge(users, profileRequests[i].token,
                            profileRequests[i].profileData
                                @@ [updatedAt |-> ServerTimestamp])
          /\ profileRequests' =
                [profileRequests EXCEPT
                    ![i] = [Called(@, UsersGet) EXCEPT
                               !.written = TRUE, !.pc = "awaitReread"]]
       \/ /\ profileRequests' =
                [profileRequests EXCEPT
                    ![i] = ProfileFinish(@,
                               ErrorResponse(ProfileWriteMessage).code,
                               Absent)]
          /\ UNCHANGED users
    /\ UNCHANGED <<simplificationJobs, requests, report, dictionaryJobs,
                   dictionaryRequests>>

\* userProfileRef.get() of line 474 settles: 201 with the stored profile
ProfileReread(i) ==
    /\ profileRequests[i].handler = "createUserProfile"
    /\ profileRequests[i].pc = "awaitReread"
    /\ \/ profileRequests' =
             [profileRequests EXCEPT
                 ![i] = ProfileFinish(@, 201,
                            Present(users[@.token].data))]
       \/ profileRequests' =
             [profileRequests EXCEPT
                 ![i] = ProfileFinish(@,
                            ErrorResponse(ProfileReadMessage).code, Absent)]
    /\ UNCHANGED <<users, simplificationJobs, requests, report,
                   dictionaryJobs, dictionaryRequests>>

\* updateRecommendationSettings, lines 497-514: up to the update
updateRecommendationSettingsStart(method, token, body) ==
    LET r0 == NewProfileRequest("updateRecommendationSettings", method)
        auth == getAuthenticatedUser(token)
        r1 == [r0 EXCEPT !.token = token]
        r2 == [r1 EXCEPT !.body = body]
    IN  IF method # "POST" THEN ProfileFinish(r0, 405, Absent)
        ELSE IF ~auth.ok
             THEN ProfileFinish(r1, ErrorResponse(auth.message).code, Absent)
        ELSE IF ~body.getRecommendations.isBoolean
             THEN ProfileFinish(r2, 400, Absent)
        ELSE [Called(r2, UsersUpdate) EXCEPT !.pc = "awaitUpdate"]

ReceiveUpdateRecommendationSettings ==
    /\ Len(profileRequests) < MaxProfileRequests
    /\ \E method \in {"POST", "GET"}, token \in Tokens,
          body \in SettingsBodies :
          /\ ReadsProfileInputs(method, token, body,
                                [getRecommendations |->
                                    [isBoolean |-> FALSE, value |-> FALSE]])
          /\ profileRequests' =
                Append(profileRequests,
                       updateRecommendationSettingsStart(method, token,
                                                         body))
    /\ UNCHANGED <<users, simplificationJobs, requests, report,
                   dictionaryJobs, dictionaryRequests>>

\* userProfileRef.update of lines 511-514 settles; update rejects when the
\* document does not exist
SettingsUpdate(i) ==
    /\ profileRequests[i].handler = "updateRecommendationSettings"
    /\ profileRequests[i].pc = "awaitUpdate"
    /\ \/ /\ users[profileRequests[i].token].exists
          /\ users' =
                DocSetMerge(users, profileRequests[i].token,
                            [getRecommendations |->
                                profileRequests[i].body.getRecommendations
                                    .value,
                             updatedAt |-> ServerTimestamp])
          /\ profileRequests' =
                [profileRequests EXCEPT
                    ![i] = [ProfileFinish(@, 200, Absent) EXCEPT
                               !.written = TRUE]]
       \/ /\ profileRequests' =
                [profileRequests EXCEPT
                    ![i] = ProfileFinish(@,
                               ErrorResponse(SettingsUpdateMessage).code,
                               Absent)]
          /\ UNCHANGED users
    /\ UNCHANGED <<simplificationJobs, requests, report, dictionaryJobs,
                   dictionaryRequests>>

NextProfileApi ==
    \/ ReceiveCreateUserProfile
    \/ ReceiveUpdateRecommendationSettings
    \/ \E i \in DOMAIN profileRequests : ProfileGet(i)
    \/ \E i \in DOMAIN profileRequests : ProfileSet(i)
    \/ \E i \in DOMAIN profileRequests : ProfileReread(i)
    \/ \E i \in DOMAIN profileRequests : SettingsUpdate(i)

SpecProfileApi == Init /\ [][NextProfileApi]_vars

(***************************************************************************)
(* functions/api/dictionary.js: dictionaryApi (POST creates a job and      *)
(* starts processDictionaryJob in the background, GET queries a job) and   *)
(* processDictionaryJob                                                    *)
(***************************************************************************)
\* the callers of dictionaryApi: no token, a rejected token, two users
DictionaryTokens == {NoToken, BadToken, "u1", "u2"}

\* the jobId parameter of a GET: an id that dictionaryApi has generated or
\* one that it has not (the smallest such stands for any)

\* request bodies of a POST: paragraphs left out, not an array, an item
\* without a string text, no text at all, only whitespace, a text
DictionaryBodies ==
    {[paragraphs |-> MissingValue],
     [paragraphs |-> NotArray],
     [paragraphs |-> Array(<<[id |-> 1]>>)],
     [paragraphs |-> Array(<<>>)],
     [paragraphs |-> Array(<<Paragraph(1, <<32>>)>>)],
     [paragraphs |-> Array(<<Paragraph(1, TextOne)>>)]}

DictionarySet == "dictionaryJobs.set"
DictionaryGet == "dictionaryJobs.get"
DictionaryUpdate == "dictionaryJobs.update"
ProcessCall == "processDictionaryJob"

DictionaryStoreMessage == "dictionaryJobs write rejected"
DictionaryReadMessage == "dictionaryJobs read rejected"
ExtractionMessage == "word extraction rejected"
DefinitionMessage == "definition rejected"

\* an entry of the dictionary made for an extracted word
DictionaryEntry ==
    [term |-> "word", tag |-> "tag", shortDefinition |-> "short",
     longDefinition |-> "long", imageUrl |-> ""]

\* an HTTP response of dictionaryApi
DictionaryResponse(code, status) ==
    [code |-> code, status |-> status, jobId |-> NoJob, data |-> Absent,
     error |-> Absent]

DictionaryError(message) ==
    DictionaryResponse(ErrorResponse(message).code, "error")

NewDictionaryRequest(method) ==
    [method |-> method,
     token |-> Unread,
     paragraphs |-> MissingValue,
     query |-> NoJob,
     fullText |-> <<>>,
     jobId |-> NoJob,
     jobData |-> NoDoc,
     failure |-> "",
     result |-> <<>>,
     uncaught |-> FALSE,
     pc |-> "start",
     response |-> DictionaryResponse(0, ""),
     calls |-> <<>>]

DictionaryFinish(r, response) ==
    [Called(r, SendResponse) EXCEPT !.pc = "done", !.response = response]

\* the ids that dictionaryApi has generated
GeneratedDictionaryIds ==
    {dictionaryRequests[i].jobId : i \in DOMAIN dictionaryRequests} \ {NoJob}

\* crypto.randomBytes(16).toString('hex') of line 242, taken to differ from
\* every id generated before: the smallest unused id stands for it
dictionaryRandomBytes ==
    LET unused == (1..(Len(dictionaryRequests) + 1)) \ GeneratedDictionaryIds
    IN  {id \in unused : \A other \in unused : id <= other}

DictionaryIds == GeneratedDictionaryIds \cup dictionaryRandomBytes

\* FieldValue.serverTimestamp() at the dictionaryJobs collection, counted
\* in the writes the store has applied
DictionaryTimestamp ==
    1 + Cardinality(DOMAIN dictionaryJobs)
      + Cardinality({j \in DOMAIN dictionaryJobs :
                        "updatedAt" \in DOMAIN dictionaryJobs[j]})

\* dictionaryApi, lines 224-268: from the arrival of the request to its
\* first call of the job store
dictionaryApiStart(method, token, body, query, id) ==
    LET r0 == NewDictionaryRequest(method)
        auth == getAuthenticatedUser(token)
        r1 == [r0 EXCEPT !.token = token]
        paragraphs == body.paragraphs
        r2 == [r1 EXCEPT !.paragraphs = paragraphs]
        fullText == JoinTexts(paragraphs.items)
        r3 == [r1 EXCEPT !.query = query]
    IN  IF ~auth.ok THEN DictionaryFinish(r1, DictionaryError(auth.message))
        ELSE IF method = "POST"
        THEN IF \/ ~paragraphs.present
                \/ ~paragraphs.isArray
                \/ \E k \in DOMAIN paragraphs.items :
                      "text" \notin DOMAIN paragraphs.items[k]
             THEN DictionaryFinish(r1, DictionaryResponse(400, "error"))
             ELSE IF Trim(fullText) = <<>>
             THEN DictionaryFinish(r1, DictionaryResponse(400, "error"))
             ELSE [Called(r2, DictionarySet) EXCEPT
                      !.fullText = fullText,
                      !.jobId = id,
                      !.pc = "awaitSet"]
        ELSE IF method = "GET"
        THEN IF query = NoJob
             THEN DictionaryFinish(r3, DictionaryResponse(400, "error"))
             ELSE [Called(r3, DictionaryGet) EXCEPT !.pc = "awaitGet"]
        ELSE DictionaryFinish(r1, DictionaryResponse(405, ""))

\* an input that the handler does not read on the path taken
ReadsDictionaryInputs(method, token, body, query) ==
    LET authenticated == getAuthenticatedUser(token).ok
    IN  /\ ~(authenticated /\ method = "POST")
              => body = [paragraphs |-> MissingValue]
        /\ ~(authenticated /\ method = "GET") => query = NoJob
        /\ ~authenticated => method = "POST"

ReceiveDictionaryApi ==
    /\ Len(dictionaryRequests) < MaxDictionaryRequests
    /\ \E method \in {"POST", "GET", "PUT"}, token \in DictionaryTokens,
          body \in DictionaryBodies, query \in DictionaryIds \cup {NoJob},
          id \in dictionaryRandomBytes :
          /\ ReadsDictionaryInputs(method, token, body, query)
          /\ dictionaryRequests' =
                Append(dictionaryRequests,
                       dictionaryApiStart(method, token, body, query, id))
    /\ UNCHANGED <<users, simplificationJobs, requests, report,
                   profileRequests, dictionaryJobs>>

\* jobRef.set of lines 245-249 at the store
DictionaryJobSet(i) ==
    /\ dictionaryRequests[i].pc = "awaitSet"
    /\ \/ /\ dictionaryJobs' =
                DocSet(dictionaryJobs, dictionaryRequests[i].jobId,
                       [userId |-> dictionaryRequests[i].token,
                        status |-> "processing",
                        createdAt |-> DictionaryTimestamp])
          /\ dictionaryRequests' =
                [dictionaryRequests EXCEPT ![i].pc = "created"]
       \/ /\ dictionaryRequests' =
                [dictionaryRequests EXCEPT
                    ![i] = DictionaryFinish(@,
                               DictionaryError(DictionaryStoreMessage))]
          /\ UNCHANGED dictionaryJobs
    /\ UNCHANGED <<users, simplificationJobs, requests, report,
                   profileRequests>>

\* dictionaryApi, lines 253-258: after the set has resolved the handler
\* calls processDictionaryJob, which runs to its first await (jobRef.get,
\* line 25), and sends the 202 response
DictionaryRespond(i) ==
    /\ dictionaryRequests[i].pc = "created"
    /\ dictionaryRequests' =
          [dictionaryRequests EXCEPT
              ![i].calls = @ \o <<ProcessCall, DictionaryGet, SendResponse>>,
              ![i].response =
                  [DictionaryResponse(202, "processing") EXCEPT
                      !.jobId = dictionaryRequests[i].jobId],
              ![i].pc = "awaitJobGet"]
    /\ UNCHANGED <<users, simplificationJobs, requests, report,
                   profileRequests, dictionaryJobs>>

\* a step of processDictionaryJob throws: the catch block of line 208 calls
\* jobRef.update with status failed
Throws(r, message) ==
    [Called(r, DictionaryUpdate) EXCEPT
        !.failure = message, !.pc = "awaitFailed"]

\* snapshot of a document of the collection
Snapshot(docs, id) == IF id \in DOMAIN docs THEN Doc(docs[id]) ELSE NoDoc

\* processDictionaryJob, lines 25-28: jobRef.get settles; jobDoc.data() of
\* a missing document is undefined and reading its userId throws
WorkerJobGet(i) ==
    /\ dictionaryRequests[i].pc = "awaitJobGet"
    /\ LET jobDoc == Snapshot(dictionaryJobs, dictionaryRequests[i].jobId)
       IN  \/ dictionaryRequests' =
                 [dictionaryRequests EXCEPT
                     ![i] = IF jobDoc.exists
                            THEN [Called(@, UsersGet) EXCEPT
                                     !.jobData = jobDoc,
                                     !.pc = "awaitUserGet"]
                            ELSE Throws([@ EXCEPT !.jobData = jobDoc],
                                        "undefined userId")]
           \/ dictionaryRequests' =
                 [dictionaryRequests EXCEPT
                     ![i] = Throws(@, DictionaryReadMessage)]
    /\ UNCHANGED <<users, simplificationJobs, requests, report,
                   profileRequests, dictionaryJobs>>

\* lines 28-70: the profile read settles and the word extraction is called
WorkerUserGet(i) ==
    /\ dictionaryRequests[i].pc = "awaitUserGet"
    /\ \/ dictionaryRequests' =
             [dictionaryRequests EXCEPT
                 ![i] = [Called(@, OracleCall) EXCEPT !.pc = "awaitWords"]]
       \/ dictionaryRequests' =
             [dictionaryRequests EXCEPT
                 ![i] = Throws(@, ProfileStoreMessage)]
    /\ UNCHANGED <<users, simplificationJobs, requests, report,
                   profileRequests, dictionaryJobs>>

\* lines 63-91: the word extraction settles: it throws, it returns no word
\* (or content that does not parse), or it returns words
WorkerWords(i) ==
    /\ dictionaryRequests[i].pc = "awaitWords"
    /\ \E outcome \in {"throws", "none", "words"} :
          dictionaryRequests' =
             [dictionaryRequests EXCEPT
                 ![i] = IF outcome = "throws"
                        THEN Throws(@, ExtractionMessage)
                        ELSE IF outcome = "none"
                        THEN [Called(@, DictionaryUpdate) EXCEPT
                                 !.result = <<>>,
                                 !.pc = "awaitCompleted"]
                        ELSE [Called(@, OracleCall) EXCEPT
                                 !.pc = "awaitDefinitions"]]
    /\ UNCHANGED <<users, simplificationJobs, requests, report,
                   profileRequests, dictionaryJobs>>

\* lines 97-206: Promise.all of the definitions settles
WorkerDefinitions(i) ==
    /\ dictionaryRequests[i].pc = "awaitDefinitions"
    /\ \/ dictionaryRequests' =
             [dictionaryRequests EXCEPT
                 ![i] = [Called(@, DictionaryUpdate) EXCEPT
                            !.result = <<DictionaryEntry>>,
                            !.pc = "awaitCompleted"]]
       \/ dictionaryRequests' =
             [dictionaryRequests EXCEPT
                 ![i] = Throws(@, DefinitionMessage)]
    /\ UNCHANGED <<users, simplificationJobs, requests, report,
                   profileRequests, dictionaryJobs>>

\* the update of lines 85-89 or 202-206 settles
WorkerCompleted(i) ==
    /\ dictionaryRequests[i].pc = "awaitCompleted"
    /\ \/ /\ dictionaryRequests[i].jobId \in DOMAIN dictionaryJobs
          /\ dictionaryJobs' =
                DocUpdate(dictionaryJobs, dictionaryRequests[i].jobId,
                          [status |-> "completed",
                           updatedAt |-> DictionaryTimestamp,
                           result |-> dictionaryRequests[i].result])
          /\ dictionaryRequests' =
                [dictionaryRequests EXCEPT ![i].pc = "done"]
       \/ /\ dictionaryRequests' =
                [dictionaryRequests EXCEPT
                    ![i] = Throws(@, DictionaryStoreMessage)]
          /\ UNCHANGED dictionaryJobs
    /\ UNCHANGED <<users, simplificationJobs, requests, report,
                   profileRequests>>

\* the update of the catch block, lines 210-214, settles; its rejection is
\* the rejection of the promise that nothing awaits
WorkerFailed(i) ==
    /\ dictionaryRequests[i].pc = "awaitFailed"
    /\ \/ /\ dictionaryRequests[i].jobId \in DOMAIN dictionaryJobs
          /\ dictionaryJobs' =
                DocUpdate(dictionaryJobs, dictionaryRequests[i].jobId,
                          [status |-> "failed",
                           updatedAt |-> DictionaryTimestamp,
                           error |-> dictionaryRequests[i].failure])
          /\ dictionaryRequests' =
                [dictionaryRequests EXCEPT ![i].pc = "done"]
       \/ /\ dictionaryRequests' =
                [dictionaryRequests EXCEPT
                    ![i].uncaught = TRUE, ![i].pc = "done"]
          /\ UNCHANGED dictionaryJobs
    /\ UNCHANGED <<users, simplificationJobs, requests, report,
                   profileRequests>>

\* dictionaryApi GET without the comparison of lines 276-279
dictionaryApiOnSnapshot_NoOwnerCheck(r, jobSnap) ==
    IF ~jobSnap.exists
    THEN DictionaryFinish(r, DictionaryResponse(404, "error"))
    ELSE DictionaryFinish(r,
             [code |-> 200, status |-> jobSnap.data.status, jobId |-> NoJob,
              data |-> Field(jobSnap.data, "result"),
              error |-> Field(jobSnap.data, "error")])

\* dictionaryApi GET, lines 270-285: the answer for the snapshot read
dictionaryApiOnSnapshot(r, jobSnap) ==
    IF ~jobSnap.exists
    THEN DictionaryFinish(r, DictionaryResponse(404, "error"))
    ELSE IF jobSnap.data.userId # r.token
    THEN DictionaryFinish(r, DictionaryResponse(403, "error"))
    ELSE DictionaryFinish(r,
             [code |-> 200, status |-> jobSnap.data.status, jobId |-> NoJob,
              data |-> Field(jobSnap.data, "result"),
              error |-> Field(jobSnap.data, "error")])

\* jobRef.get of line 268 settles
DictionaryQuery(i) ==
    /\ dictionaryRequests[i].pc = "awaitGet"
    /\ \/ LET jobSnap == Snapshot(dictionaryJobs,
                                  dictionaryRequests[i].query)
          IN  dictionaryRequests' =
                 [dictionaryRequests EXCEPT
                     ![i] = dictionaryApiOnSnapshot(
                                [@ EXCEPT !.jobData = jobSnap], jobSnap)]
       \/ dictionaryRequests' =
             [dictionaryRequests EXCEPT
                 ![i] = DictionaryFinish(@,
                            DictionaryError(DictionaryReadMessage))]
    /\ UNCHANGED <<users, simplificationJobs, requests, report,
                   profileRequests, dictionaryJobs>>

\* Queries beside jobs in every state: u1 posts a text, and u1 and u2 query
\* job ids; the job store and the collaborators of processDictionaryJob
\* fail as in SpecDictionary
ReceiveDictionaryPost ==
    /\ Len(dictionaryRequests) < MaxDictionaryRequests
    /\ \E id \in dictionaryRandomBytes :
          dictionaryRequests' =
             Append(dictionaryRequests,
                    dictionaryApiStart("POST", "u1",
                        [paragraphs |-> Array(<<Paragraph(1, TextOne)>>)],
                        NoJob, id))
    /\ UNCHANGED <<users, simplificationJobs, requests, report,
                   profileRequests, dictionaryJobs>>

ReceiveDictionaryGet ==
    /\ Len(dictionaryRequests) < MaxDictionaryRequests
    /\ \E token \in {"u1", "u2"}, query \in DictionaryIds,
          id \in dictionaryRandomBytes :
          dictionaryRequests' =
             Append(dictionaryRequests,
                    dictionaryApiStart("GET", token,
                                       [paragraphs |-> MissingValue],
                                       query, id))
    /\ UNCHANGED <<users, simplificationJobs, requests, report,
                   profileRequests, dictionaryJobs>>

NextDictionaryQueries ==
    \/ ReceiveDictionaryPost
    \/ ReceiveDictionaryGet
    \/ \E i \in DOMAIN dictionaryRequests : DictionaryJobSet(i)
    \/ \E i \in DOMAIN dictionaryRequests : DictionaryRespond(i)
    \/ \E i \in DOMAIN dictionaryRequests : WorkerJobGet(i)
    \/ \E i \in DOMAIN dictionaryRequests : WorkerUserGet(i)
    \/ \E i \in DOMAIN dictionaryRequests : WorkerWords(i)
    \/ \E i \in DOMAIN dictionaryRequests : WorkerDefinitions(i)
    \/ \E i \in DOMAIN dictionaryRequests : WorkerCompleted(i)
    \/ \E i \in DOMAIN dictionaryRequests : WorkerFailed(i)
    \/ \E i \in DOMAIN dictionaryRequests : DictionaryQuery(i)

SpecDictionaryQueries == Init /\ [][NextDictionaryQueries]_vars

NextDictionary ==
    \/ ReceiveDictionaryApi
    \/ \E i \in DOMAIN dictionaryRequests : DictionaryJobSet(i)
    \/ \E i \in DOMAIN dictionaryRequests : DictionaryRespond(i)
    \/ \E i \in DOMAIN dictionaryRequests : WorkerJobGet(i)
    \/ \E i \in DOMAIN dictionaryRequests : WorkerUserGet(i)
    \/ \E i \in DOMAIN dictionaryRequests : WorkerWords(i)
    \/ \E i \in DOMAIN dictionaryRequests : WorkerDefinitions(i)
    \/ \E i \in DOMAIN dictionaryRequests : WorkerCompleted(i)
    \/ \E i \in DOMAIN dictionaryRequests : WorkerFailed(i)
    \/ \E i \in DOMAIN dictionaryRequests : DictionaryQuery(i)

SpecDictionary == Init /\ [][NextDictionary]_vars

(***************************************************************************)
(* Properties                                                              *)
(***************************************************************************)
Terminal == {"completed", "failed"}

\* the requests whose jobRef.set has been applied by the store
Created(i) ==
    requests[i].pc \in {"created", "awaitUpdate", "awaitCatchUpdate"}
    \/ (requests[i].pc = "done" /\ requests[i].response.code = 200)

\* request i has no job record: it generated no job id and every stored job
\* is the one of another request
NoJobOf(i) ==
    /\ requests[i].jobId = NoJob
    /\ \A j \in DOMAIN simplificationJobs :
          \E k \in DOMAIN requests \ {i} : requests[k].jobId = j /\ Created(k)

\* the finisher of request i has run to its end
FinisherEnded(i) ==
    requests[i].pc = "done" /\ requests[i].response.code = 200

\* the paragraphs request i submitted
Submitted(i) == requests[i].body.paragraphs.items

Ids(ps) == [k \in DOMAIN ps |-> ps[k].id]

\* C1: a report query for a job id that a 200 response of simplifyText has
\* handed out never answers 404, in any interleaving with the finisher: it
\* finds the record and answers processing, completed or failed (unless the
\* store read itself is rejected, which is answered 500 by the catch block).
\* the invocation r has made the call
HasCalled(r, call) == \E k \in DOMAIN r.calls : r.calls[k] = call

\* the paragraphs the chat completion of request i returned (none when the
\* arguments have no simplified_paragraphs)
Rewritten(i) ==
    IF requests[i].reply.simplified_paragraphs.present
    THEN requests[i].reply.simplified_paragraphs.items
    ELSE <<>>

\* the number of code units before the text of paragraph k in a text that
\* holds the texts of ps in order with two code units between neighbours
RECURSIVE OffsetOf(_, _)
OffsetOf(ps, k) ==
    IF k = 1 THEN 0 ELSE OffsetOf(ps, k - 1) + Len(ps[k - 1].text) + 2

\* text holds the texts of ps, each once and in the order of ps, with a
\* blank line (two line feeds) between neighbours and nothing else
IsConcatenation(text, ps) ==
    /\ Len(text) = IF ps = <<>> THEN 0
                   ELSE OffsetOf(ps, Len(ps)) + Len(ps[Len(ps)].text)
    /\ \A k \in DOMAIN ps :
          SubSeq(text, OffsetOf(ps, k) + 1,
                 OffsetOf(ps, k) + Len(ps[k].text)) = ps[k].text
    /\ \A k \in 1..(Len(ps) - 1) :
          SubSeq(text, OffsetOf(ps, k + 1) - 1, OffsetOf(ps, k + 1))
              = <<LF, LF>>

\* the fields jobRef.set writes besides status
CreationFields == {"userId", "createdAt", "originalText", "simplifiedText"}

\* the texts that a finisher has analysed, each with the metrics stored
\* for it in the report of its job
Analysed ==
    UNION {{<<simplificationJobs[j].originalText,
              simplificationJobs[j].analysis.quantitative_analysis.original>>,
            <<simplificationJobs[j].simplifiedText,
              simplificationJobs[j].analysis.quantitative_analysis.simplified>>} :
           j \in {k \in DOMAIN simplificationJobs :
                     "analysis" \in DOMAIN simplificationJobs[k]}}

\* the request has gone through the finisher to a stored report
Reported(i) ==
    /\ requests[i].jobId \in DOMAIN simplificationJobs
    /\ "analysis" \in DOMAIN simplificationJobs[requests[i].jobId]

\* x is a quotient of integers with a divisor that is not 0
IsQuotient(x) == DOMAIN x = {1, 2} /\ x[1] \in Int /\ x[2] \in Int /\ x[2] > 0

\* the positions of text where a fragment between '.', '?' and '!' has its
\* first character that is not whitespace
FragmentStarts(text) ==
    {i \in DOMAIN text :
        /\ text[i] \notin {46, 63, 33}
        /\ text[i] \notin Whitespace
        /\ \A k \in 1..(i - 1) :
              (\A n \in k..(i - 1) : text[n] \notin {46, 63, 33}) =>
                  text[k] \in Whitespace}

\* the characters . , ? ! ' " that are deleted before the words are split
Deleted == {46, 44, 63, 33, 39, 34}

\* the positions of text where a word begins: a character that is neither
\* deleted nor whitespace, and the kept character before it, if there is
\* one, is whitespace
WordStarts(text) ==
    {i \in DOMAIN text :
        /\ text[i] \notin Deleted
        /\ text[i] \notin Whitespace
        /\ \A k \in 1..(i - 1) :
              (/\ text[k] \notin Deleted
               /\ \A n \in (k + 1)..(i - 1) : text[n] \in Deleted) =>
                  text[k] \in Whitespace}

\* the word that begins at position i: the kept characters up to the next
\* whitespace
RECURSIVE WordFrom(_, _)
WordFrom(text, i) ==
    IF i > Len(text) \/ text[i] \in Whitespace THEN <<>>
    ELSE IF text[i] \in Deleted THEN WordFrom(text, i + 1)
         ELSE <<text[i]>> \o WordFrom(text, i + 1)

\* the stored reports
Reports ==
    {simplificationJobs[j].analysis.quantitative_analysis :
        j \in {k \in DOMAIN simplificationJobs :
                  "analysis" \in DOMAIN simplificationJobs[k]}}

\* the quotient v is (o - s) / o for natural numbers o and s, and 0 when
\* o is 0
IsReductionOf(v, o, s) ==
    IF o = 0 THEN v[1] = 0 ELSE v[1] * o = (o - s) * v[2]

\* the quotient v is (o - s) / o for quotients o and s that are not
\* negative, and 0 when o is 0
IsImprovementOf(v, o, s) ==
    IF o[1] = 0 THEN v[1] = 0
    ELSE v[1] * s[2] * o[1] = (o[1] * s[2] - s[1] * o[2]) * v[2]

C1_IssuedJobIsFound ==
    report.issued =>
        /\ report.code # 404
        /\ \/ /\ report.snapshot.exists
              /\ report.status \in {"processing"} \cup Terminal
           \/ report.details = Present(JobReadMessage)

C1_Witness_PolledWhileProcessing ==
    report.issued /\ report.code = 202 /\ report.status = "processing"

\* C2: a report query by an authenticated caller who is not the owner of
\* the job is answered 403 without analysis or error data, whatever the
\* status of the job.
C2_CrossOwnerQueryForbidden ==
    (report.snapshot.exists /\ report.token # report.snapshot.data.userId) =>
        /\ report.code = 403
        /\ ~report.analysis.present
        /\ ~report.details.present

\* C3: in the job store a completed job has analysis and no error, a failed
\* job has error and no analysis, a processing job has neither; this also
\* holds when an update of the finisher is rejected.
C3_TerminalExclusivity ==
    \A j \in DOMAIN simplificationJobs :
        LET job == simplificationJobs[j]
        IN  /\ job.status \in {"processing"} \cup Terminal
            /\ job.status = "completed" =>
                  "analysis" \in DOMAIN job /\ "error" \notin DOMAIN job
            /\ job.status = "failed" =>
                  "error" \in DOMAIN job /\ "analysis" \notin DOMAIN job
            /\ job.status = "processing" =>
                  "analysis" \notin DOMAIN job /\ "error" \notin DOMAIN job

C3_Witness_FailedAfterRejectedUpdate ==
    \E i \in DOMAIN requests :
        /\ requests[i].updatesIssued = 2
        /\ requests[i].jobId \in DOMAIN simplificationJobs
        /\ simplificationJobs[requests[i].jobId].status = "failed"

\* C4: a job record is updated exactly once after its creation, by the
\* finisher of its own request, from processing to completed or failed: no
\* second update is issued for a job, a finisher that has ended leaves its
\* job terminal, and a terminal record never changes again.
C4_UpdatedExactlyOnce ==
    [][ /\ \A j \in DOMAIN simplificationJobs :
              simplificationJobs[j].status \in Terminal =>
                  simplificationJobs'[j] = simplificationJobs[j]
        /\ \A i \in DOMAIN requests' :
              /\ requests'[i].updatesIssued <= 1
              /\ (requests'[i].pc = "done" /\ requests'[i].response.code = 200)
                    => simplificationJobs'[requests'[i].jobId].status
                          \in Terminal
      ]_vars

\* C5: every job created with status processing reaches completed or
\* failed once its finisher has run, also when an update of the job store
\* is rejected: when the finisher has ended the job is not processing.
C5_FinisherLeavesJobTerminal ==
    \A i \in DOMAIN requests :
        FinisherEnded(i) =>
            simplificationJobs[requests[i].jobId].status \in Terminal

\* C6: a well-formed submission of a user whose stored profile has
\* sentence = 0 and vocabulary = 0 is answered 400 with status rejected,
\* the rewrite oracle is not called and the request has no job record.
C6_ZeroProfileRejected ==
    \A i \in DOMAIN requests :
        (/\ requests[i].profile.exists
         /\ requests[i].profile.data.readingProfile.sentence = 0
         /\ requests[i].profile.data.readingProfile.vocabulary = 0
         /\ requests[i].body.title # Missing
         /\ requests[i].body.paragraphs.isArray) =>
            /\ requests[i].pc = "done"
            /\ requests[i].response.code = 400
            /\ requests[i].response.status = "rejected"
            /\ requests[i].reply = NoReply
            /\ NoJobOf(i)

C6_Witness_Rejected ==
    \E i \in DOMAIN requests :
        /\ requests[i].token = "u2"
        /\ requests[i].body.paragraphs.items # <<>>
        /\ requests[i].response.status = "rejected"

\* C7: when the rewrite oracle call fails (it throws, or its message has no
\* tool call or no arguments) simplifyText answers 500 and the request has
\* no job record.
C7_OracleFailureLeavesNoJob ==
    \A i \in DOMAIN requests :
        requests[i].reply.kind \in {"throws", "noToolCall"} =>
            /\ requests[i].pc = "done"
            /\ requests[i].response.code = 500
            /\ NoJobOf(i)

C7_Witness_OracleFailed ==
    \E i \in DOMAIN requests :
        /\ requests[i].reply.kind = "noToolCall"
        /\ requests[i].response.code = 500

\* C8: simplified_paragraphs of a 200 response has the length and the ids,
\* in order, of the submitted paragraphs; an oracle output with another
\* count, other ids or no simplified_paragraphs field is answered with an
\* error and no job is created.
C8_ParagraphIdsPreserved ==
    \A i \in DOMAIN requests :
        /\ requests[i].response.code = 200 =>
              Ids(requests[i].response.simplified_paragraphs)
                  = Ids(Submitted(i))
        /\ (/\ requests[i].reply.kind = "arguments"
            /\ \/ ~requests[i].reply.simplified_paragraphs.isArray
               \/ Ids(requests[i].reply.simplified_paragraphs.items)
                     # Ids(Submitted(i))) =>
              /\ requests[i].pc = "done"
              /\ requests[i].response.code >= 400
              /\ NoJobOf(i)

\* C9: a failure after the creation of the job record is recorded in the
\* record as status failed with the error message and is not thrown out of
\* generateAndSaveReport.
C9_FinisherFailureCaptured ==
    \A i \in DOMAIN requests :
        /\ ~requests[i].uncaught
        /\ (requests[i].updatesIssued = 2 /\ requests[i].pc = "done") =>
              /\ simplificationJobs[requests[i].jobId].status = "failed"
              /\ simplificationJobs[requests[i].jobId].error = JobStoreMessage

\* C10: the answer of a report query that finds the job is given by the
\* stored status: completed gives 200 with the stored analysis, processing
\* gives 202 with neither analysis nor error, failed gives 500 with the
\* stored error as details.
C10_ReportFollowsStoredStatus ==
    report.snapshot.exists =>
        LET job == report.snapshot.data
        IN  /\ job.status = "completed" =>
                  /\ report.code = 200 /\ report.status = "completed"
                  /\ report.analysis = Field(job, "analysis")
                  /\ ~report.details.present
            /\ job.status = "processing" =>
                  /\ report.code = 202 /\ report.status = "processing"
                  /\ ~report.analysis.present /\ ~report.details.present
            /\ job.status = "failed" =>
                  /\ report.code = 500 /\ report.status = "failed"
                  /\ report.details = Field(job, "error")
                  /\ ~report.analysis.present

C10_Witness_CompletedReport ==
    /\ report.snapshot.exists
    /\ report.code = 200
    /\ report.analysis.present
    /\ report.analysis.value.quantitative_analysis.original.charCount > 0

\* C11: a report query of an authenticated caller for a job id under which
\* no record has been created is answered 404 without analysis, whatever
\* else the job store holds (unless the store read itself is rejected).
C11_UnknownJobNotFound ==
    (/\ report.token \in Uids
     /\ report.jobId # NoJob
     /\ report.jobId \notin DOMAIN simplificationJobs
     /\ report.details # Present(JobReadMessage)) =>
        /\ report.code = 404
        /\ report.status = "error"
        /\ ~report.analysis.present

C11_Witness_UnknownJobBesideStoredJob ==
    /\ report.token \in Uids
    /\ report.code = 404
    /\ report.calls = <<JobsGet>>
    /\ simplificationJobs # <<>>
    /\ report.jobId \notin DOMAIN simplificationJobs

\* C12: a submission of an authenticated caller who has no stored profile
\* document is answered 404; the rewrite oracle is not called for it and it
\* has no job record (read with the profile read resolving: a rejected read
\* is answered 500 by the catch block).
C12_MissingProfileNotFound ==
    \A i \in DOMAIN requests :
        (/\ requests[i].method = "POST"
         /\ requests[i].token \in Uids
         /\ ~users[requests[i].token].exists
         /\ requests[i].response.details # ProfileStoreMessage) =>
            /\ requests[i].pc = "done"
            /\ requests[i].response.code = 404
            /\ requests[i].calls = <<UsersGet, SendResponse>>
            /\ requests[i].reply = NoReply
            /\ NoJobOf(i)

C12_Witness_NoProfile ==
    \E i \in DOMAIN requests :
        /\ requests[i].token = "u3"
        /\ requests[i].response.code = 404
        /\ HasCalled(requests[i], UsersGet)

\* C13: a simplifyText request (POST) or a report query whose credential is
\* missing or invalid is answered 401 and does nothing else: the profile is
\* not read, the rewrite oracle is not called, the job store is neither read
\* nor written, and the request has no job record.
C13_BadCredentialHasNoEffect ==
    /\ \A i \in DOMAIN requests :
          (requests[i].method = "POST"
              /\ requests[i].token \in {NoToken, BadToken}) =>
              /\ requests[i].pc = "done"
              /\ requests[i].response.code = 401
              /\ requests[i].calls = <<SendResponse>>
              /\ requests[i].profile = NoDoc
              /\ requests[i].reply = NoReply
              /\ NoJobOf(i)
    /\ report.token \in {NoToken, BadToken} =>
          /\ report.code = 401
          /\ report.calls = <<>>
          /\ report.snapshot = NoDoc
          /\ ~report.analysis.present

C13_Witness_InvalidTokenSubmitted ==
    \E i \in DOMAIN requests :
        /\ requests[i].token = BadToken
        /\ requests[i].response.code = 401
        /\ requests[i].response.details = InvalidTokenMessage

\* C14: a submission of a caller with a stored profile whose body has no
\* title, no paragraphs or paragraphs that is not an array is answered 400
\* "Invalid request data."; the rewrite oracle is not called for it and it
\* has no job record.
C14_InvalidBodyRejected ==
    \A i \in DOMAIN requests :
        (/\ requests[i].profile.exists
         /\ requests[i].body.title # Unread
         /\ \/ requests[i].body.title = Missing
            \/ ~requests[i].body.paragraphs.present
            \/ ~requests[i].body.paragraphs.isArray) =>
            /\ requests[i].pc = "done"
            /\ requests[i].response.code = 400
            /\ requests[i].response.details = "Invalid request data."
            /\ requests[i].calls = <<UsersGet, SendResponse>>
            /\ requests[i].reply = NoReply
            /\ NoJobOf(i)

C14_Witness_ParagraphsNotArray ==
    \E i \in DOMAIN requests :
        /\ requests[i].profile.exists
        /\ requests[i].body.title = "title"
        /\ requests[i].body.paragraphs = NotArray
        /\ requests[i].response.code = 400

\* C15: whenever the rewrite oracle is called for a stored profile with
\* sentence in {0,1,2} and vocabulary in {0,1,2,3}, the guidelines passed to
\* it are not empty, hold one instruction for each dimension whose level is
\* not 0, and differ from the guidelines of every profile that has another
\* non-zero level in one dimension.
C15_GuidelinePerDimension ==
    \A i \in DOMAIN requests :
        HasCalled(requests[i], OracleCall) =>
            LET p == requests[i].profile.data.readingProfile
            IN  /\ requests[i].guidelines # <<>>
                /\ Len(requests[i].guidelines)
                      = (IF p.sentence # 0 THEN 1 ELSE 0)
                          + (IF p.vocabulary # 0 THEN 1 ELSE 0)
                /\ \A q \in ReadingProfiles :
                      (/\ q # p
                       /\ (q.sentence = 0) = (p.sentence = 0)
                       /\ (q.vocabulary = 0) = (p.vocabulary = 0)) =>
                          guidelineSentences(q) # requests[i].guidelines

\* C16: a 200 response of simplifyText has status processing, the job id
\* under which the record of its request is stored, and the paragraphs
\* whose texts, joined, are the simplifiedText of that record.
C16_ResponseMatchesJobRecord ==
    \A i \in DOMAIN requests :
        requests[i].response.code = 200 =>
            LET answer == requests[i].response
            IN  /\ answer.status = "processing"
                /\ answer.jobId # NoJob
                /\ answer.jobId = requests[i].jobId
                /\ answer.jobId \in DOMAIN simplificationJobs
                /\ simplificationJobs[answer.jobId].userId = requests[i].token
                /\ simplificationJobs[answer.jobId].simplifiedText
                      = JoinTexts(answer.simplified_paragraphs)

C16_Witness_RewrittenParagraphsReturned ==
    \E i \in DOMAIN requests :
        /\ requests[i].response.code = 200
        /\ Len(requests[i].response.simplified_paragraphs) = 2
        /\ requests[i].response.simplified_paragraphs # Submitted(i)
        /\ simplificationJobs[requests[i].response.jobId].status = "completed"

\* C17: in a job record originalText is the texts of the submitted
\* paragraphs and simplifiedText the texts of the paragraphs the oracle
\* returned, each text once and in the order of its sequence, with the same
\* separator (a blank line) between neighbours.
C17_StoredTextsAreConcatenations ==
    \A i \in DOMAIN requests :
        requests[i].jobId \in DOMAIN simplificationJobs =>
            LET job == simplificationJobs[requests[i].jobId]
            IN  /\ IsConcatenation(job.originalText, Submitted(i))
                /\ IsConcatenation(job.simplifiedText, Rewritten(i))

C17_Witness_TwoParagraphsStored ==
    \E i \in DOMAIN requests :
        /\ requests[i].jobId \in DOMAIN simplificationJobs
        /\ Len(Submitted(i)) = 2
        /\ Len(Rewritten(i)) = 2
        /\ simplificationJobs[requests[i].jobId].originalText
              = TextOne \o <<LF, LF>> \o TextTwo
        /\ simplificationJobs[requests[i].jobId].simplifiedText
              = TextEasy \o <<LF, LF>> \o TextEasy

\* C18: a request whose finisher has issued an update has its job record in
\* the store, written by its own jobRef.set, and while an update of the
\* finisher is on its way the record still has status processing: no update
\* is issued for a job id that is not in the store.
C18_FinisherStartsAfterCreation ==
    \A i \in DOMAIN requests :
        HasCalled(requests[i], JobsUpdate) =>
            /\ requests[i].updatesIssued > 0
            /\ HasCalled(requests[i], JobsSet)
            /\ requests[i].jobId \in DOMAIN simplificationJobs
            /\ simplificationJobs[requests[i].jobId].userId = requests[i].token
            /\ requests[i].pc \in {"awaitUpdate", "awaitCatchUpdate"} =>
                  simplificationJobs[requests[i].jobId].status = "processing"

C18_Witness_UpdateIssuedForStoredJob ==
    \E i \in DOMAIN requests :
        /\ requests[i].pc = "awaitUpdate"
        /\ requests[i].calls
              = <<UsersGet, OracleCall, JobsSet, SendResponse, JobsUpdate>>
        /\ simplificationJobs[requests[i].jobId].status = "processing"

\* C19: a step that changes a stored job record keeps its userId,
\* createdAt, originalText and simplifiedText as they were, and either sets
\* status to completed and adds analysis, or sets status to failed and adds
\* error; it changes nothing else.
C19_UpdateKeepsCreationFields ==
    [][ \A j \in DOMAIN simplificationJobs :
            /\ j \in DOMAIN simplificationJobs'
            /\ \A f \in CreationFields :
                  /\ f \in DOMAIN simplificationJobs'[j]
                  /\ simplificationJobs'[j][f] = simplificationJobs[j][f]
            /\ simplificationJobs'[j] # simplificationJobs[j] =>
                  \/ /\ simplificationJobs'[j].status = "completed"
                     /\ DOMAIN simplificationJobs'[j]
                           = DOMAIN simplificationJobs[j] \cup {"analysis"}
                  \/ /\ simplificationJobs'[j].status = "failed"
                     /\ DOMAIN simplificationJobs'[j]
                           = DOMAIN simplificationJobs[j] \cup {"error"}
      ]_vars

C19_Witness_FailedJobKeepsTexts ==
    \E i \in DOMAIN requests :
        /\ requests[i].jobId \in DOMAIN simplificationJobs
        /\ simplificationJobs[requests[i].jobId].status = "failed"
        /\ simplificationJobs[requests[i].jobId].userId = "u1"
        /\ simplificationJobs[requests[i].jobId].createdAt = 1
        /\ simplificationJobs[requests[i].jobId].originalText
              = TextOne \o <<LF, LF>> \o TextTwo
        /\ simplificationJobs[requests[i].jobId].simplifiedText = TextEasy

\* C20: with several submissions in flight, a step that changes a stored
\* job record is an update of the finisher of the request that owns the
\* record and leaves every other record and every other request as they
\* were; the analysis of every job is the report of that job's own
\* originalText and simplifiedText.
C20_FinishersAreIsolated ==
    [][ /\ \A j \in DOMAIN simplificationJobs :
              simplificationJobs'[j] # simplificationJobs[j] =>
                  /\ \E i \in DOMAIN requests :
                        /\ requests[i].jobId = j
                        /\ requests[i].pc \in {"awaitUpdate", "awaitCatchUpdate"}
                        /\ requests'[i].pc = "done"
                        /\ \A k \in DOMAIN requests \ {i} :
                              requests'[k] = requests[k]
                  /\ \A other \in DOMAIN simplificationJobs \ {j} :
                        simplificationJobs'[other] = simplificationJobs[other]
        /\ \A j \in DOMAIN simplificationJobs' :
              "analysis" \in DOMAIN simplificationJobs'[j] =>
                  simplificationJobs'[j].analysis
                      = analysisReport(simplificationJobs'[j].originalText,
                                       simplificationJobs'[j].simplifiedText)
      ]_vars

C20_Witness_OneFinalizedOtherInFlight ==
    \E i, k \in DOMAIN requests :
        /\ i # k
        /\ requests[i].jobId \in DOMAIN simplificationJobs
        /\ requests[k].jobId \in DOMAIN simplificationJobs
        /\ requests[i].jobId # requests[k].jobId
        /\ simplificationJobs[requests[i].jobId].status = "completed"
        /\ requests[k].pc = "awaitUpdate"
        /\ simplificationJobs[requests[k].jobId].status = "processing"
        /\ simplificationJobs[requests[i].jobId].simplifiedText
              # simplificationJobs[requests[k].jobId].simplifiedText
        /\ simplificationJobs[requests[i].jobId].originalText
              # simplificationJobs[requests[k].jobId].originalText

\* C21: the record a report query reads is the record as it was before the
\* finisher's update (processing, no analysis, no error) or as it is after
\* it (completed with analysis, or failed with error), and the answer says
\* so: completed is never answered without the analysis, failed never
\* without the error.
C21_QuerySeesWholeUpdate ==
    report.snapshot.exists =>
        LET job == report.snapshot.data
        IN  \/ /\ job.status = "processing"
               /\ DOMAIN job = CreationFields \cup {"status"}
               /\ report.code = 202
               /\ ~report.analysis.present /\ ~report.details.present
            \/ /\ job.status = "completed"
               /\ DOMAIN job = CreationFields \cup {"status", "analysis"}
               /\ report.code = 200
               /\ report.analysis = Present(job.analysis)
            \/ /\ job.status = "failed"
               /\ DOMAIN job = CreationFields \cup {"status", "error"}
               /\ report.code = 500
               /\ report.details = Present(job.error)

C21_Witness_ReadWhileUpdatePending ==
    \E i \in DOMAIN requests :
        /\ requests[i].pc \in {"awaitUpdate", "awaitCatchUpdate"}
        /\ report.jobId = requests[i].jobId
        /\ report.snapshot.exists
        /\ report.code = 202

C23_MetricsFullyPopulated ==
    \A p \in Analysed :
        LET text == p[1]
            m == p[2]
        IN  /\ DOMAIN m = {"charCount", "wordCount", "sentenceCount",
                           "syllableCount", "stopwordCount",
                           "avgSentenceLength", "avgWordSyllableLength",
                           "readabilityScore"}
            /\ \A f \in {"charCount", "wordCount", "sentenceCount",
                         "syllableCount", "stopwordCount"} : m[f] \in Nat
            /\ \A f \in {"avgSentenceLength", "avgWordSyllableLength",
                         "readabilityScore"} : IsQuotient(m[f])
            /\ text = <<>> =>
                  /\ \A f \in {"charCount", "wordCount", "sentenceCount",
                               "syllableCount", "stopwordCount"} : m[f] = 0
                  /\ \A f \in {"avgSentenceLength", "avgWordSyllableLength",
                               "readabilityScore"} : m[f][1] = 0

C23_Witness_EmptyTextAnalysed ==
    \E i \in DOMAIN requests :
        /\ Reported(i)
        /\ simplificationJobs[requests[i].jobId].originalText = <<>>
        /\ simplificationJobs[requests[i].jobId].simplifiedText = TextOne

\* C24: in the metrics of an analysed text avgSentenceLength is wordCount /
\* sentenceCount (0 when there is no sentence), avgWordSyllableLength is
\* syllableCount / wordCount (0 when there is no word), and ten times
\* readabilityScore is six times the first plus four times the second.
C24_AveragesAndScore ==
    \A p \in Analysed :
        LET m == p[2]
            s == m.avgSentenceLength
            w == m.avgWordSyllableLength
            r == m.readabilityScore
        IN  /\ IF m.sentenceCount = 0 THEN s[1] = 0
               ELSE s[1] * m.sentenceCount = m.wordCount * s[2]
            /\ IF m.wordCount = 0 THEN w[1] = 0
               ELSE w[1] * m.wordCount = m.syllableCount * w[2]
            /\ 10 * r[1] * s[2] * w[2]
                  = r[2] * (6 * s[1] * w[2] + 4 * w[1] * s[2])

C24_Witness_ExampleScore ==
    \E p \in Analysed :
        /\ p[1] = TextExample
        /\ p[2].avgSentenceLength = <<2, 1>>
        /\ p[2].avgWordSyllableLength = <<11, 4>>
        /\ p[2].readabilityScore = <<23, 10>>

\* C25: sentenceCount of an analysed text is the number of the fragments
\* between its runs of '.', '?' and '!' that have a character that is not
\* whitespace: 0 for the empty text, 2 for "이것은 긴 문장입니다. 짧다.".
C25_SentenceCount ==
    \A p \in Analysed :
        /\ p[2].sentenceCount = Cardinality(FragmentStarts(p[1]))
        /\ p[1] = <<>> => p[2].sentenceCount = 0
        /\ p[1] = TextExample => p[2].sentenceCount = 2

C25_Witness_ExampleSentences ==
    \E p, q \in Analysed :
        /\ p[1] = TextExample /\ p[2].sentenceCount = 2
        /\ q[1] = TextOne /\ q[2].sentenceCount = 2

\* C26: wordCount of an analysed text is the number of words left when
\* every . , ? ! ' " is deleted and the rest is split on whitespace, and
\* stopwordCount is the number of those words that are equal to an entry
\* of the stopword list; a word that only contains an entry does not count.
C26_WordsAndStopwords ==
    \A p \in Analysed :
        /\ p[2].wordCount = Cardinality(WordStarts(p[1]))
        /\ p[2].stopwordCount =
              Cardinality({i \in WordStarts(p[1]) :
                              WordFrom(p[1], i) \in KOREAN_STOPWORDS})
        /\ p[1] = TextStopwords =>
              p[2].wordCount = 4 /\ p[2].stopwordCount = 2

C26_Witness_StopwordsCounted ==
    \E p, q \in Analysed :
        /\ p[1] = TextStopwords /\ p[2].stopwordCount = 2
        /\ q[1] = TextEasy /\ q[2].wordCount = 1 /\ q[2].stopwordCount = 1

\* C27: syllableCount of an analysed text is the number of its characters
\* with a code from U+AC00 (44032) to U+D7A3 (55203), both included; a text
\* of Latin letters, digits, punctuation and whitespace has syllableCount 0.
C27_SyllableCount ==
    \A p \in Analysed :
        /\ p[2].syllableCount =
              Cardinality({i \in DOMAIN p[1] :
                              p[1][i] >= 44032 /\ p[1][i] <= 55203})
        /\ p[1] = TextBoundaries => p[2].syllableCount = 2
        /\ p[1] = TextNoHangul => p[2].syllableCount = 0

C27_Witness_BoundariesCounted ==
    \E p \in Analysed :
        /\ p[1] = TextBoundaries
        /\ p[2].charCount = 4
        /\ p[2].syllableCount = 2

\* C28 as claimed: in a stored report char_count_reduction,
\* word_count_reduction, stopword_reduction_count and
\* readability_improvement are each (original - simplified) / original of
\* their metric, and 0 when the original metric is 0.
C28_AllFourAreRatios ==
    \A q \in Reports :
        LET v == q.improvements
        IN  /\ IsReductionOf(v.char_count_reduction,
                             q.original.charCount, q.simplified.charCount)
            /\ IsReductionOf(v.word_count_reduction,
                             q.original.wordCount, q.simplified.wordCount)
            /\ IsImprovementOf(v.readability_improvement,
                               q.original.readabilityScore,
                               q.simplified.readabilityScore)
            /\ IF q.original.stopwordCount = 0
               THEN v.stopword_reduction_count = 0
               ELSE v.stopword_reduction_count * q.original.stopwordCount
                       = q.original.stopwordCount - q.simplified.stopwordCount

\* C28 as amended: char_count_reduction, word_count_reduction and
\* readability_improvement are each (original - simplified) / original of
\* their metric, 0 when the original metric is 0 and negative when the
\* simplified metric is the larger one; stopword_reduction_count is the
\* difference of the two stopword counts, not divided and not set to 0 when
\* the original count is 0.
C28_RatiosAndStopwordDifference ==
    \A q \in Reports :
        LET v == q.improvements
        IN  /\ IsReductionOf(v.char_count_reduction,
                             q.original.charCount, q.simplified.charCount)
            /\ IsReductionOf(v.word_count_reduction,
                             q.original.wordCount, q.simplified.wordCount)
            /\ IsImprovementOf(v.readability_improvement,
                               q.original.readabilityScore,
                               q.simplified.readabilityScore)
            /\ IsQuotient(v.char_count_reduction)
            /\ IsQuotient(v.word_count_reduction)
            /\ IsQuotient(v.readability_improvement)
            /\ (q.original.charCount > 0
                  /\ q.simplified.charCount > q.original.charCount) =>
                  v.char_count_reduction[1] < 0
            /\ (q.original.wordCount > 0
                  /\ q.simplified.wordCount > q.original.wordCount) =>
                  v.word_count_reduction[1] < 0
            /\ v.stopword_reduction_count
                  = q.original.stopwordCount - q.simplified.stopwordCount

C28_Witness_NegativeReductions ==
    \E q \in Reports :
        /\ q.original.charCount > 0
        /\ q.original.stopwordCount = 0
        /\ q.improvements.char_count_reduction[1] < 0
        /\ q.improvements.word_count_reduction[1] < 0
        /\ q.improvements.readability_improvement[1] < 0
        /\ q.improvements.stopword_reduction_count < 0

\* C29: when the text the oracle returns is the submitted text, the stored
\* report has readability_improvement 0 and char_count_reduction 0 (shown
\* as 0.0 and 0 per cent in the summary), the other improvements are 0 too,
\* and the metrics of the original and of the simplified text are the same.
C29_SameTextNoImprovement ==
    \A j \in DOMAIN simplificationJobs :
        (/\ "analysis" \in DOMAIN simplificationJobs[j]
         /\ simplificationJobs[j].originalText
               = simplificationJobs[j].simplifiedText) =>
            LET q == simplificationJobs[j].analysis.quantitative_analysis
                summary == simplificationJobs[j].analysis.summary
            IN  /\ q.improvements.readability_improvement = <<0, 1>>
                /\ q.improvements.char_count_reduction = <<0, 1>>
                /\ q.improvements.word_count_reduction = <<0, 1>>
                /\ q.improvements.stopword_reduction_count = 0
                /\ summary.readability_improvement_percent = 0
                /\ summary.char_count_reduction_percent = 0
                /\ summary.key_message = <<0, 0>>
                /\ q.original = q.simplified

C29_Witness_ExampleUnchanged ==
    \E j \in DOMAIN simplificationJobs :
        /\ "analysis" \in DOMAIN simplificationJobs[j]
        /\ simplificationJobs[j].originalText = TextExample
        /\ simplificationJobs[j].simplifiedText = TextExample
        /\ simplificationJobs[j].analysis.quantitative_analysis.original
              .readabilityScore[1] > 0

\* C30: a step of a report query, whatever it answers (200, 202, 400, 401,
\* 404 or 500), leaves every job record, the users and the submissions as
\* they were, and the only call it makes to the job store is one read.
C30_QueryIsPureRead ==
    [][ report' # report =>
            /\ simplificationJobs' = simplificationJobs
            /\ users' = users
            /\ requests' = requests
            /\ report'.calls \in {<<>>, <<JobsGet>>}
            /\ report'.code \in {0, 200, 202, 400, 401, 404, 500}
      ]_vars

C30_Witness_CompletedJobStillStored ==
    /\ report.code = 200
    /\ report.calls = <<JobsGet>>
    /\ report.jobId \in DOMAIN simplificationJobs
    /\ simplificationJobs[report.jobId] = report.snapshot.data
    /\ simplificationJobs[report.jobId].status = "completed"

\* every call of b in the trace comes after a call of a
Precedes(calls, a, b) ==
    \A k \in DOMAIN calls :
        calls[k] = b => \E m \in 1..(k - 1) : calls[m] = a

\* C33: for a submission answered 200 the events come in the order: job
\* record created (jobRef.set resolved), 200 response sent, finisher's update
\* of the job store.  At the step that sends the response the stored record
\* exists with status processing, and a record only becomes terminal when
\* the response of its submission has been sent before.
C33_CreatedThenResponseThenUpdate ==
    [][ \A i \in DOMAIN requests' :
          LET r == requests'[i]
              answeredNow ==
                  /\ r.response.code = 200
                  /\ (i \in DOMAIN requests => requests[i].response.code # 200)
              terminalNow ==
                  /\ r.jobId \in DOMAIN simplificationJobs'
                  /\ simplificationJobs'[r.jobId].status \in Terminal
                  /\ simplificationJobs'[r.jobId] #
                        IF r.jobId \in DOMAIN simplificationJobs
                        THEN simplificationJobs[r.jobId]
                        ELSE <<>>
          IN  /\ r.response.code = 200 =>
                    /\ Precedes(r.calls, JobsSet, SendResponse)
                    /\ Precedes(r.calls, SendResponse, JobsUpdate)
                    /\ r.jobId \in DOMAIN simplificationJobs'
              /\ HasCalled(r, JobsUpdate) => r.response.code = 200
              /\ answeredNow =>
                    /\ r.jobId \in DOMAIN simplificationJobs
                    /\ simplificationJobs[r.jobId].status = "processing"
                    /\ simplificationJobs'[r.jobId].status = "processing"
              /\ terminalNow =>
                    /\ i \in DOMAIN requests
                    /\ requests[i].response.code = 200
      ]_vars

C33_Witness_AnsweredWhileProcessing ==
    \E i \in DOMAIN requests :
        /\ requests[i].calls =
              <<UsersGet, OracleCall, JobsSet, SendResponse, JobsUpdate>>
        /\ requests[i].response.status = "processing"
        /\ requests[i].jobId \in DOMAIN simplificationJobs
        /\ simplificationJobs[requests[i].jobId].status = "processing"
        /\ \E k \in DOMAIN requests \ {i} :
              /\ requests[k].pc = "done"
              /\ requests[k].jobId \in DOMAIN simplificationJobs
              /\ simplificationJobs[requests[k].jobId].status = "completed"

\* the positions of the trace at which the call was made
CallsOf(r, call) == {k \in DOMAIN r.calls : r.calls[k] = call}

\* the handler of the request has returned (its finisher may still run)
Returned(r) == r.pc \in {"awaitUpdate", "awaitCatchUpdate", "done"}

\* C34: a simplifyText request whose handler has returned has sent exactly
\* one HTTP response, on every path (405, 401, 404, 400, rejected, oracle
\* failure, store failure, success); no request ever sends two, and a
\* finisher that fails after the 200 response leaves that response the only
\* one.
C34_ExactlyOneResponse ==
    \A i \in DOMAIN requests :
        LET r == requests[i]
        IN  /\ Cardinality(CallsOf(r, SendResponse)) <= 1
            /\ Returned(r) <=> Cardinality(CallsOf(r, SendResponse)) = 1
            /\ Returned(r) <=> r.response.code # 0
            /\ r.response.code \in {0, 200, 400, 401, 404, 405, 500}
            /\ HasCalled(r, JobsUpdate) => r.response.code = 200

C34_Witness_FinisherFailedAfterResponse ==
    \E i \in DOMAIN requests :
        /\ requests[i].uncaught
        /\ requests[i].pc = "done"
        /\ requests[i].response.code = 200
        /\ Cardinality(CallsOf(requests[i], SendResponse)) = 1
        /\ Cardinality(CallsOf(requests[i], JobsUpdate)) = 2

\* C35: the metrics stored for every analysed text satisfy: a text with a
\* word has a sentence, so the average sentence length is 0 only when there
\* is no word; no more stopwords than words; no more Hangul syllables than
\* code units.
C35_MetricsAreConsistent ==
    \A q \in Analysed :
        LET m == q[2]
        IN  /\ m.wordCount > 0 => m.sentenceCount > 0
            /\ m.avgSentenceLength[1] = 0 => m.wordCount = 0
            /\ m.wordCount > 0 => FracPositive(m.avgSentenceLength)
            /\ m.stopwordCount <= m.wordCount
            /\ m.syllableCount <= m.charCount
            /\ m.charCount = Len(q[1])

C35_Witness_SentenceWithoutWord ==
    \E q \in Analysed, p \in Analysed :
        /\ q[2].wordCount = 0
        /\ q[2].sentenceCount = 1
        /\ q[2].syllableCount < q[2].charCount
        /\ p[2].wordCount > 0
        /\ p[2].stopwordCount = p[2].wordCount

\* the stored getRecommendations of a user: absent when there is no profile
\* document or the document has no such field
RecommendationSetting(docs, uid) ==
    IF docs[uid].exists THEN Field(docs[uid].data, "getRecommendations")
    ELSE Absent

\* the write of createUserProfile invocation i is applied in this step
ProfileWritten(i) ==
    /\ profileRequests[i].handler = "createUserProfile"
    /\ profileRequests[i].pc = "awaitSet"
    /\ profileRequests'[i].pc = "awaitReread"

ForeignQueries ==
    {i \in DOMAIN dictionaryRequests :
        /\ dictionaryRequests[i].method = "GET"
        /\ dictionaryRequests[i].jobData.exists
        /\ dictionaryRequests[i].jobData.data.userId
              # dictionaryRequests[i].token}

\* C32: a dictionaryApi GET by an authenticated caller for a job whose
\* stored userId is another user's is answered 403 with status error and
\* without the job's status, result or error, whatever the status of the
\* job is.
C32_ForeignDictionaryJobForbidden ==
    \A i \in ForeignQueries :
        LET r == dictionaryRequests[i]
        IN  /\ r.pc = "done"
            /\ r.response.code = 403
            /\ r.response.status = "error"
            /\ r.response.status # r.jobData.data.status
            /\ ~r.response.data.present
            /\ ~r.response.error.present
            /\ r.response.jobId = NoJob

C32_Witness_CompletedJobRefused ==
    \E i \in ForeignQueries :
        /\ dictionaryRequests[i].jobData.data.status = "completed"
        /\ dictionaryRequests[i].jobData.data.result = <<DictionaryEntry>>
        /\ dictionaryRequests[i].response.code = 403

\* C36: for a dictionaryApi POST answered 202 the job record (userId of the
\* caller, status processing) is created before processDictionaryJob is
\* called and reads it, and when processDictionaryJob has ended the job is
\* completed with a result and no error, or failed with an error and no
\* result.
C36_DictionaryJobCreatedThenTerminal ==
    \A i \in DOMAIN dictionaryRequests :
        LET r == dictionaryRequests[i]
            job == dictionaryJobs[r.jobId]
        IN  r.response.code = 202 =>
              /\ Precedes(r.calls, DictionarySet, ProcessCall)
              /\ Precedes(r.calls, ProcessCall, DictionaryGet)
              /\ r.jobId \in DOMAIN dictionaryJobs
              /\ job.userId = r.token
              /\ r.jobData.exists =>
                    /\ r.jobData.data.userId = r.token
                    /\ r.jobData.data.status = "processing"
              /\ r.pc = "done" =>
                    \/ /\ job.status = "completed"
                       /\ "result" \in DOMAIN job
                       /\ "error" \notin DOMAIN job
                    \/ /\ job.status = "failed"
                       /\ "error" \in DOMAIN job
                       /\ "result" \notin DOMAIN job

=============================================================================
